---- MODULE Spec2Model ----
(***************************************************************************)
(* Wallet-based authentication and session lifecycle of the Cheshire web   *)
(* app: the Express server (auth routes, JWT guard, user_sessions store,   *)
(* sweeper) and the browser client (zustand token store, wallet sync       *)
(* hook, sign-in component).                                               *)
(*                                                                         *)
(* Time is Date.now() in milliseconds.  A database call together with the  *)
(* synchronous continuation that follows it is one step.                   *)
(***************************************************************************)
EXTENDS Integers, FiniteSets, Sequences, TLC

\* ------------------------------------------------------------------------
\* Bounds of the model
\* ------------------------------------------------------------------------
MaxTicks == 2
MaxIssued == 2
MaxCalls == 2
MaxElapse == 3
MaxSweeps == 3
MaxOps == 3

\* ------------------------------------------------------------------------
\* Program constants
\* ------------------------------------------------------------------------
SESSION_DURATION == 129600

CACHE_DURATION == 360000
JWT_TOKEN_KEY == "cheshire_jwt_token"

\* Clock advances the model explores, in ms: half a second, and half a second
\* short of one session duration.
TickSteps == {500, SESSION_DURATION * 1000 - 500}

\* Times the model lets pass on the cached store's page, in ms: one
\* millisecond, and one millisecond short of the cache duration.
ElapseSteps == {1, CACHE_DURATION - 1}

\* The page is followed until just after one cache duration.
ElapseHorizon == CACHE_DURATION + 1

\* Addresses the cached store's server answers with.
CacheAddrs == {"0xAA"}

\* ------------------------------------------------------------------------
\* Values
\* ------------------------------------------------------------------------
\* Wallet addresses as the wallet library reports them (checksum case) and
\* as a request may spell them.
Addrs == {"0xAA", "0xbb"}

\* String.prototype.toLowerCase on an address.
ToLowerCase(a) == IF a = "0xAA" THEN "0xaa" ELSE a

LowerAddrs == {ToLowerCase(a) : a \in Addrs}

\* JS undefined / null for an address-valued slot.
NoAddr == "none"

JwtSecret == "hs256:secret"

\* The absent token (undefined / null).
NoToken == [wallet_address |-> NoAddr, iat |-> 0, exp |-> 0,
            iss |-> "", sub |-> NoAddr, sig |-> "none"]

\* userPayload of createAuthSession, for a call at time nowMs.
UserPayload(walletAddress, nowMs) ==
    [wallet_address |-> ToLowerCase(walletAddress),
     iat |-> nowMs \div 1000,
     exp |-> (nowMs \div 1000) + SESSION_DURATION,
     iss |-> "cheshire-auth",
     sub |-> ToLowerCase(walletAddress)]

\* jwt.sign(payload, secret): deterministic in payload and secret.
JwtSign(payload) ==
    [wallet_address |-> payload.wallet_address, iat |-> payload.iat,
     exp |-> payload.exp, iss |-> payload.iss, sub |-> payload.sub,
     sig |-> JwtSecret]

\* The same claims under a signature that the server secret did not make.
Forge(token) == [token EXCEPT !.sig = "hs256:other"]

\* Mutant of JwtVerify: a token still verifies in the second of its exp.
JwtVerify_AcceptsAtExp(token, nowMs) ==
    /\ token.sig = JwtSecret
    /\ (nowMs \div 1000) <= token.exp

\* jwt.verify(token, secret) as a predicate: TRUE when it returns the decoded
\* payload, FALSE when it throws (bad signature, or now at or past exp).
JwtVerify(token, nowMs) ==
    /\ token.sig = JwtSecret
    /\ (nowMs \div 1000) < token.exp

\* Authorization header: absent, or "Bearer <token>".
NoHeader == [scheme |-> "none", token |-> NoToken]
Bearer(token) == [scheme |-> "Bearer ", token |-> token]

\* The challenge message text, by the parts the template embeds.
Nonces == {"n1"}
Message(address, nonce) == [address |-> address, nonce |-> nonce, present |-> TRUE]
NoMessage == [address |-> NoAddr, nonce |-> "", present |-> FALSE]

\* message.match(/Address: (0x[a-fA-F0-9]{40})/): the address, or NoAddr.
MatchAddress(message) == message.address

\* A signature: who signed, and over which message text. signer "garbage" is
\* arbitrary bytes; NoSignature is a missing body field.
Signature(signer, message) == [signer |-> signer, message |-> message, present |-> TRUE]
NoSignature == [signer |-> "", message |-> NoMessage, present |-> FALSE]

\* Whether signature was produced over message by address's private key.
SignedBy(signature, message, address) ==
    /\ signature.present
    /\ signature.message = message
    /\ signature.signer = ToLowerCase(address)

VARIABLES
    now,            \* Date.now(), ms
    ticks,          \* how many times the model has advanced the clock
    users,          \* users table: set of wallet_address
    user_sessions,  \* user_sessions table: set of rows
    issued,         \* tokens that sign-in responses have carried
    revoked,        \* tokens that a sign-out answered with 200 has named
    last,           \* the last request of a direct caller, with its response
    store,          \* the zustand token store of the page
    storage,        \* localStorage and sessionStorage of the browser
    wallet,         \* what useAccount reports, and whether the chain is supported
    prevAddressRef, \* useWalletAuthSync's ref to the address of the last commit
    loading,        \* CustomSignIn's loading state
    timers,         \* pending setTimeout callbacks of the page
    calls,          \* asynchronous calls of the page that have not resolved
    alert,          \* the message window.alert is showing, if any
    authStore,      \* the zustand cached store (useAuthStore)
    authCache,      \* what localStorage holds under CACHE_KEY
    authCalls,      \* asynchronous calls of the cached store that have not resolved
    mountedAt,      \* when useAuthSync mounted and set its interval (-1: not yet)
    sweeper,        \* the server process and its cleanup schedule
    ops,            \* store operations of the server that have started and not ended
    batch,          \* the store when the operations began to overlap, and those that ended
    fetched         \* the auth headers of the page's last apiFetch

serverVars == <<now, ticks, users, user_sessions, issued, revoked, last>>

clientVars ==
    <<store, storage, wallet, prevAddressRef, loading, timers, calls, alert>>

cacheVars == <<authStore, authCache, authCalls, mountedAt>>

overlapVars == <<ops, batch>>

vars == <<now, ticks, users, user_sessions, issued, revoked, last,
          store, storage, wallet, prevAddressRef, loading, timers, calls, alert,
          authStore, authCache, authCalls, mountedAt, sweeper,
          ops, batch, fetched>>

\* ------------------------------------------------------------------------
\* Store operations
\* ------------------------------------------------------------------------
SessionRow(token, walletAddress, nowMs) ==
    [jwt_token |-> token,
     wallet_address |-> ToLowerCase(walletAddress),
     expires_at |-> nowMs + SESSION_DURATION * 1000]

\* userDb.exists: select ... eq('wallet_address', lower).single(); !!data.
UserDbExists(usrs, walletAddress) == ToLowerCase(walletAddress) \in usrs

\* select('*').eq('jwt_token', t).eq('wallet_address', a): the matching rows.
SelectSession(sess, token, walletAddress) ==
    {r \in sess : r.jwt_token = token /\ r.wallet_address = walletAddress}

\* Mutant of DbDelete: a delete that matches no row is answered with an error.
DbDelete_MissingRowIsError(sess, matching) ==
    [sessions |-> sess \ matching, error |-> matching = {}]

\* delete() with its filters, as one statement of the database: the matching
\* rows go and { error: null } comes back, also when no row matches.
DbDelete(sess, matching) ==
    [sessions |-> sess \ matching, error |-> FALSE]

\* cleanupExpiredSessions' statement: delete().lt('expires_at', cutoff), with
\* cutoff the new Date() the caller put into the query.
SweepStatement(sess, cutoff) ==
    DbDelete(sess, {r \in sess : r.expires_at < cutoff})

\* invalidateSession's statement: delete().eq('jwt_token', token)
\* .eq('wallet_address', decoded.wallet_address).
InvalidateStatement(sess, token) ==
    DbDelete(sess, SelectSession(sess, token, token.wallet_address))

\* Mutant of VerifyDeleteStatement: the clean-up filters on the address of the
\* token, not on the token.
VerifyDeleteStatement_ByAddress(sess, token) ==
    DbDelete(sess, {r \in sess : r.wallet_address = token.wallet_address})

\* verifyAuthToken's clean-up statement: delete().eq('jwt_token', token).
VerifyDeleteStatement(sess, token) ==
    DbDelete(sess, {r \in sess : r.jwt_token = token})

\* ------------------------------------------------------------------------
\* Session utilities (server/utils/supabaseAuth.js)
\* ------------------------------------------------------------------------
\* Mutant of createAuthSession: jwt_token is not a key of user_sessions, the
\* insert of a token that is already recorded adds a second row.
createAuthSession_NoPrimaryKey(walletAddress, nowMs, sess, fault) ==
    LET token == JwtSign(UserPayload(walletAddress, nowMs))
    IN  IF fault = "sessions.insert.23503"
        THEN [ok |-> FALSE, token |-> NoToken, code |-> "23503", sessions |-> sess]
        ELSE IF fault = "sessions.insert"
        THEN [ok |-> FALSE, token |-> NoToken, code |-> "other", sessions |-> sess]
        ELSE [ok |-> TRUE, token |-> token, code |-> "",
              sessions |-> sess \cup {SessionRow(token, walletAddress, nowMs)}]

\* Mutant of createAuthSession: the insert error is not thrown, the token is
\* returned although no row was written.
createAuthSession_IgnoresInsertError(walletAddress, nowMs, sess, fault) ==
    LET token == JwtSign(UserPayload(walletAddress, nowMs))
        duplicate == \E r \in sess : r.jwt_token = token
    IN  IF fault \in {"sessions.insert", "sessions.insert.23503"} \/ duplicate
        THEN [ok |-> TRUE, token |-> token, code |-> "", sessions |-> sess]
        ELSE [ok |-> TRUE, token |-> token, code |-> "",
              sessions |-> sess \cup {SessionRow(token, walletAddress, nowMs)}]

\* createAuthSession: sign the payload, insert the row; the insert fails on a
\* store error or when jwt_token (the primary key) is already present, and the
\* function then throws the store's error. ok = it returned { token }; code =
\* the code of the error thrown (23503: the users row the insert refers to is
\* gone, 23505: duplicate key).
createAuthSession(walletAddress, nowMs, sess, fault) ==
    LET token == JwtSign(UserPayload(walletAddress, nowMs))
        duplicate == \E r \in sess : r.jwt_token = token
    IN  IF fault = "sessions.insert.23503"
        THEN [ok |-> FALSE, token |-> NoToken, code |-> "23503", sessions |-> sess]
        ELSE IF fault = "sessions.insert"
        THEN [ok |-> FALSE, token |-> NoToken, code |-> "other", sessions |-> sess]
        ELSE IF duplicate
        THEN [ok |-> FALSE, token |-> NoToken, code |-> "23505", sessions |-> sess]
        ELSE [ok |-> TRUE, token |-> token, code |-> "",
              sessions |-> sess \cup {SessionRow(token, walletAddress, nowMs)}]

\* Mutant of verifyAuthToken: the error of the row lookup is not looked at, a
\* token that verifies is valid when the lookup fails.
verifyAuthToken_IgnoresLookupError(token, nowMs, sess, fault) ==
    IF ~JwtVerify(token, nowMs)
    THEN [valid |-> FALSE, walletAddress |-> NoAddr, sessions |-> sess,
          storeAccessed |-> FALSE]
    ELSE LET rows == SelectSession(sess, token, token.wallet_address)
         IN  IF fault = "sessions.select"
             THEN [valid |-> TRUE, walletAddress |-> token.wallet_address,
                   sessions |-> sess, storeAccessed |-> TRUE]
             ELSE IF Cardinality(rows) # 1
             THEN [valid |-> FALSE, walletAddress |-> NoAddr, sessions |-> sess,
                   storeAccessed |-> TRUE]
             ELSE LET session == CHOOSE r \in rows : TRUE
                  IN  IF session.expires_at < nowMs
                      THEN [valid |-> FALSE, walletAddress |-> NoAddr,
                            sessions |-> IF fault = "sessions.delete" THEN sess
                                         ELSE {r \in sess : r.jwt_token # token},
                            storeAccessed |-> TRUE]
                      ELSE [valid |-> TRUE,
                            walletAddress |-> token.wallet_address,
                            sessions |-> sess, storeAccessed |-> TRUE]

\* Mutant of verifyAuthToken: the user_sessions lookup is left out.
verifyAuthToken_SkipsRowLookup(token, nowMs, sess, fault) ==
    IF ~JwtVerify(token, nowMs)
    THEN [valid |-> FALSE, walletAddress |-> NoAddr, sessions |-> sess,
          storeAccessed |-> FALSE]
    ELSE [valid |-> TRUE, walletAddress |-> token.wallet_address,
          sessions |-> sess, storeAccessed |-> FALSE]

\* Mutant of verifyAuthToken: the row is looked up (and an expired row
\* deleted) before jwt.verify is called.
verifyAuthToken_StoreFirst(token, nowMs, sess, fault) ==
    LET rows == SelectSession(sess, token, token.wallet_address)
    IN  IF fault = "sessions.select" \/ Cardinality(rows) # 1
        THEN [valid |-> FALSE, walletAddress |-> NoAddr, sessions |-> sess,
              storeAccessed |-> TRUE]
        ELSE LET session == CHOOSE r \in rows : TRUE
             IN  IF session.expires_at < nowMs
                 THEN [valid |-> FALSE, walletAddress |-> NoAddr,
                       sessions |-> IF fault = "sessions.delete" THEN sess
                                    ELSE {r \in sess : r.jwt_token # token},
                       storeAccessed |-> TRUE]
                 ELSE [valid |-> JwtVerify(token, nowMs),
                       walletAddress |-> IF JwtVerify(token, nowMs)
                                         THEN token.wallet_address ELSE NoAddr,
                       sessions |-> sess, storeAccessed |-> TRUE]

\* verifyAuthToken: jwt.verify first (a throw is caught and gives null with no
\* store call); then the row lookup by token and decoded address (.single():
\* an error unless exactly one row); then the row's own expires_at, deleting
\* the row when it is past. valid = it returned { walletAddress, isValid }.
verifyAuthToken(token, nowMs, sess, fault) ==
    IF ~JwtVerify(token, nowMs)
    THEN [valid |-> FALSE, walletAddress |-> NoAddr, sessions |-> sess,
          storeAccessed |-> FALSE]
    ELSE LET rows == SelectSession(sess, token, token.wallet_address)
         IN  IF fault = "sessions.select" \/ Cardinality(rows) # 1
             THEN [valid |-> FALSE, walletAddress |-> NoAddr, sessions |-> sess,
                   storeAccessed |-> TRUE]
             ELSE LET session == CHOOSE r \in rows : TRUE
                  IN  IF session.expires_at < nowMs
                      THEN [valid |-> FALSE, walletAddress |-> NoAddr,
                            sessions |-> IF fault = "sessions.delete" THEN sess
                                         ELSE {r \in sess : r.jwt_token # token},
                            storeAccessed |-> TRUE]
                      ELSE [valid |-> TRUE,
                            walletAddress |-> token.wallet_address,
                            sessions |-> sess, storeAccessed |-> TRUE]

\* invalidateSession: jwt.verify (a throw gives false), then delete the row by
\* token and decoded address; a store error gives false.
invalidateSession(token, nowMs, sess, fault) ==
    IF ~JwtVerify(token, nowMs)
    THEN [ok |-> FALSE, sessions |-> sess]
    ELSE IF fault = "sessions.delete"
         THEN [ok |-> FALSE, sessions |-> sess]
         ELSE [ok |-> TRUE,
               sessions |-> sess \ SelectSession(sess, token, token.wallet_address)]

\* Mutant of cleanupExpiredSessions: the filter names created_at.
cleanupExpiredSessions_ByCreatedAt(nowMs, sess, fault) ==
    IF fault \in {"sessions.delete", "sessions.delete.throws"}
    THEN [sessions |-> sess, returned |-> "undefined", threw |-> FALSE]
    ELSE [sessions |-> {r \in sess :
                          ~(r.expires_at - SESSION_DURATION * 1000 < nowMs)},
          returned |-> "undefined", threw |-> FALSE]

\* Mutant of cleanupExpiredSessions: the catch rethrows, as createAuthSession's
\* does.
cleanupExpiredSessions_Rethrows(nowMs, sess, fault) ==
    IF fault \in {"sessions.delete", "sessions.delete.throws"}
    THEN [sessions |-> sess, returned |-> "undefined",
          threw |-> fault = "sessions.delete.throws"]
    ELSE [sessions |-> {r \in sess : ~(r.expires_at < nowMs)},
          returned |-> "undefined", threw |-> FALSE]

\* cleanupExpiredSessions: delete().lt('expires_at', now). An error result
\* ("sessions.delete") and an exception ("sessions.delete.throws") are
\* logged; the function has no return statement. sessions is the table it
\* leaves, returned what it returns, threw whether it raises to its caller.
cleanupExpiredSessions(nowMs, sess, fault) ==
    IF fault \in {"sessions.delete", "sessions.delete.throws"}
    THEN [sessions |-> sess, returned |-> "undefined", threw |-> FALSE]
    ELSE [sessions |-> {r \in sess : ~(r.expires_at < nowMs)},
          returned |-> "undefined", threw |-> FALSE]

\* ------------------------------------------------------------------------
\* HTTP responses
\* ------------------------------------------------------------------------
\* The store call of a request that fails, if any: a handler reaches at most
\* one failing call, since every failure ends the handler's store work.
NoFault == "none"

\* What a handler answered. authenticated is the body's field of that name
\* ("absent" when the body has none). handlerRan, storeAccessed, nextCalls and
\* attached record what the request did on the way: whether the route handler
\* behind the guard ran, whether verifyAuthToken called the store, how many
\* times the middleware called next(), and the req.walletAddress it set.
Response(op, status) ==
    [op |-> op, status |-> status, success |-> FALSE, token |-> NoToken,
     needsSetup |-> FALSE, walletAddress |-> NoAddr, exists |-> FALSE,
     authenticated |-> "absent",
     handlerRan |-> FALSE, storeAccessed |-> FALSE,
     nextCalls |-> 0, attached |-> NoAddr]

NoResponse == Response("none", 0)

\* What a request carried.
Request(header, message, signature, address, fault) ==
    [header |-> header, message |-> message, signature |-> signature,
     address |-> address, fault |-> fault]

NoRequest == Request(NoHeader, NoMessage, NoSignature, NoAddr, NoFault)

\* ------------------------------------------------------------------------
\* Guard (server/middleware/jwtAuth.js)
\* ------------------------------------------------------------------------
\* Mutant of requireJwtAuth: a token that does not verify is answered as an
\* internal error.
requireJwtAuth_InvalidIs500(op, header, nowMs, sess, fault) ==
    IF header.scheme # "Bearer "
    THEN [res |-> [Response(op, 401) EXCEPT !.authenticated = "false"],
          sessions |-> sess]
    ELSE LET token == header.token
             authResult == verifyAuthToken(token, nowMs, sess, fault)
         IN  IF ~authResult.valid
             THEN [res |-> [Response(op, 500) EXCEPT
                              !.storeAccessed = authResult.storeAccessed],
                   sessions |-> authResult.sessions]
             ELSE [res |-> [Response(op, 200) EXCEPT
                              !.handlerRan = TRUE,
                              !.nextCalls = 1,
                              !.attached = authResult.walletAddress,
                              !.walletAddress = authResult.walletAddress,
                              !.storeAccessed = authResult.storeAccessed],
                   sessions |-> authResult.sessions]

\* requireJwtAuth in front of a route handler: the response, and the store
\* after the request. handlerRan = next() was called with req.walletAddress set.
requireJwtAuth(op, header, nowMs, sess, fault) ==
    IF header.scheme # "Bearer "
    THEN [res |-> [Response(op, 401) EXCEPT !.authenticated = "false"],
          sessions |-> sess]
    ELSE LET token == header.token
             authResult == verifyAuthToken(token, nowMs, sess, fault)
         IN  IF ~authResult.valid
             THEN [res |-> [Response(op, 401) EXCEPT
                              !.authenticated = "false",
                              !.storeAccessed = authResult.storeAccessed],
                   sessions |-> authResult.sessions]
             ELSE [res |-> [Response(op, 200) EXCEPT
                              !.handlerRan = TRUE,
                              !.nextCalls = 1,
                              !.attached = authResult.walletAddress,
                              !.walletAddress = authResult.walletAddress,
                              !.storeAccessed = authResult.storeAccessed],
                   sessions |-> authResult.sessions]

\* Mutant of optionalJwtAuth: the address a token claims is attached without
\* the token being verified.
optionalJwtAuth_TrustsClaims(header, nowMs, sess, fault) ==
    IF header.scheme = "Bearer "
    THEN [attached |-> header.token.wallet_address, nextCalls |-> 1,
          rejected |-> FALSE, storeAccessed |-> FALSE, sessions |-> sess]
    ELSE [attached |-> NoAddr, nextCalls |-> 1, rejected |-> FALSE,
          storeAccessed |-> FALSE, sessions |-> sess]

\* optionalJwtAuth: with a bearer header, verifyAuthToken, and
\* req.walletAddress set when it returns a valid result; then next(). The
\* catch calls next() as well, for an error thrown before the first next().
\* rejected = the middleware answered the request itself.
optionalJwtAuth(header, nowMs, sess, fault) ==
    IF header.scheme = "Bearer "
    THEN LET authResult == verifyAuthToken(header.token, nowMs, sess, fault)
         IN  [attached |-> IF authResult.valid THEN authResult.walletAddress
                           ELSE NoAddr,
              nextCalls |-> 1, rejected |-> FALSE,
              storeAccessed |-> authResult.storeAccessed,
              sessions |-> authResult.sessions]
    ELSE [attached |-> NoAddr, nextCalls |-> 1, rejected |-> FALSE,
          storeAccessed |-> FALSE, sessions |-> sess]

\* ------------------------------------------------------------------------
\* Auth routes (server/routes/authRoutes.js)
\* ------------------------------------------------------------------------
\* GET /auth/check-user?address=
CheckUserRoute(address, usrs, fault) ==
    IF address = NoAddr THEN Response("check-user", 400)
    ELSE IF fault = "users.select" THEN Response("check-user", 500)
    ELSE LET exists == UserDbExists(usrs, address)
         IN  [Response("check-user", 200) EXCEPT
                !.exists = exists, !.needsSetup = ~exists,
                !.walletAddress = ToLowerCase(address)]

\* Mutant of SigninRoute: the profile-existence check is left out.
SigninRoute_NoProfileCheck(message, signature, nowMs, usrs, sess, fault) ==
    IF ~message.present \/ ~signature.present
    THEN [res |-> Response("signin", 400), sessions |-> sess]
    ELSE LET address == MatchAddress(message)
         IN  IF address = NoAddr
             THEN [res |-> Response("signin", 400), sessions |-> sess]
             ELSE LET created == createAuthSession(address, nowMs, sess, fault)
                  IN  IF ~created.ok /\ created.code = "23503"
                      THEN [res |-> [Response("signin", 403) EXCEPT
                                       !.needsSetup = TRUE],
                            sessions |-> created.sessions]
                      ELSE IF ~created.ok
                      THEN [res |-> Response("signin", 500),
                            sessions |-> created.sessions]
                      ELSE [res |-> [Response("signin", 200) EXCEPT
                                       !.success = TRUE,
                                       !.token = created.token,
                                       !.walletAddress = address],
                            sessions |-> created.sessions]

\* POST /auth/signin: body { message, signature }. A createAuthSession error
\* with code 23503 is answered 403 needsSetup, any other error 500.
SigninRoute(message, signature, nowMs, usrs, sess, fault) ==
    IF ~message.present \/ ~signature.present
    THEN [res |-> Response("signin", 400), sessions |-> sess]
    ELSE LET address == MatchAddress(message)
         IN  IF address = NoAddr
             THEN [res |-> Response("signin", 400), sessions |-> sess]
             ELSE IF fault = "users.select"
             THEN [res |-> Response("signin", 500), sessions |-> sess]
             ELSE IF ~UserDbExists(usrs, address)
             THEN [res |-> [Response("signin", 403) EXCEPT
                              !.needsSetup = TRUE,
                              !.walletAddress = ToLowerCase(address)],
                   sessions |-> sess]
             ELSE LET created == createAuthSession(address, nowMs, sess, fault)
                  IN  IF ~created.ok /\ created.code = "23503"
                      THEN [res |-> [Response("signin", 403) EXCEPT
                                       !.needsSetup = TRUE],
                            sessions |-> created.sessions]
                      ELSE IF ~created.ok
                      THEN [res |-> Response("signin", 500),
                            sessions |-> created.sessions]
                      ELSE [res |-> [Response("signin", 200) EXCEPT
                                       !.success = TRUE,
                                       !.token = created.token,
                                       !.walletAddress = address],
                            sessions |-> created.sessions]

\* GET /auth/me behind requireJwtAuth: the handler answers authenticated:true
\* with the address the guard attached.
MeRoute(header, nowMs, sess, fault) ==
    LET out == requireJwtAuth("me", header, nowMs, sess, fault)
    IN  IF out.res.handlerRan
        THEN [out EXCEPT !.res.authenticated = "true"]
        ELSE out

\* POST /auth/signout: 400 without a bearer header, otherwise
\* invalidateSession (its result is not read) and 200.
SignoutRoute(header, nowMs, sess, fault) ==
    IF header.scheme # "Bearer "
    THEN [res |-> Response("signout", 400), sessions |-> sess]
    ELSE LET token == header.token
             done == invalidateSession(token, nowMs, sess, fault)
         IN  [res |-> [Response("signout", 200) EXCEPT !.success = TRUE],
              sessions |-> done.sessions]

\* The handler of POST /user/create for the address it settled on: the profile
\* insert; 409 when the profile exists.
CreateUserRoute(address, usrs, fault) ==
    IF address = NoAddr THEN [res |-> Response("create", 400), users |-> usrs]
    ELSE IF fault = "users.select" THEN [res |-> Response("create", 500), users |-> usrs]
    ELSE IF UserDbExists(usrs, address)
    THEN [res |-> Response("create", 409), users |-> usrs]
    ELSE [res |-> [Response("create", 201) EXCEPT
                     !.success = TRUE, !.walletAddress = ToLowerCase(address)],
          users |-> usrs \cup {ToLowerCase(address)}]

\* POST /user/create behind optionalJwtAuth: the handler takes the address
\* the middleware attached, or else body.wallet_address.
CreateRoute(header, address, nowMs, usrs, sess, fault) ==
    LET pre == optionalJwtAuth(header, nowMs, sess, fault)
        walletAddress == IF pre.attached # NoAddr THEN pre.attached ELSE address
        out == CreateUserRoute(walletAddress, usrs, fault)
    IN  [res |-> [out.res EXCEPT !.handlerRan = pre.nextCalls >= 1,
                                 !.nextCalls = pre.nextCalls,
                                 !.attached = pre.attached,
                                 !.storeAccessed = pre.storeAccessed],
         users |-> out.users, sessions |-> pre.sessions]

\* ------------------------------------------------------------------------
\* Server: requests arriving from any HTTP client, the sweeper, the clock
\* ------------------------------------------------------------------------
\* Tokens a caller may present: every token a sign-in has returned, and the
\* same claims re-signed without the server secret.
Presentable == issued \cup {Forge(t) : t \in issued}

Headers == {NoHeader} \cup {Bearer(t) : t \in Presentable}

Messages == {Message(a, n) : a \in Addrs \cup {NoAddr}, n \in Nonces}

\* Signatures a caller may submit with message m: by either key over m,
\* arbitrary bytes, or none.
SignaturesFor(m) ==
    {Signature(k, m) : k \in LowerAddrs \cup {"garbage"}} \cup {NoSignature}

\* The clock advances; the 100 ms timers of a page fire before it does.
Tick(d) ==
    /\ ticks < MaxTicks
    /\ timers = {}
    /\ now' = now + d
    /\ ticks' = ticks + 1
    /\ UNCHANGED <<users, user_sessions, issued, revoked, last>>

GetCheckUser(address, fault) ==
    /\ last' = [req |-> Request(NoHeader, NoMessage, NoSignature, address, fault),
                res |-> CheckUserRoute(address, users, fault)]
    /\ UNCHANGED <<now, ticks, users, user_sessions, issued, revoked>>

PostCreateUser(header, address, fault) ==
    LET out == CreateRoute(header, address, now, users, user_sessions, fault)
    IN  /\ users' = out.users
        /\ user_sessions' = out.sessions
        /\ last' = [req |-> Request(header, NoMessage, NoSignature, address, fault),
                    res |-> out.res]
        /\ UNCHANGED <<now, ticks, issued, revoked>>

PostSignin(message, signature, fault) ==
    LET out == SigninRoute(message, signature, now, users, user_sessions, fault)
    IN  /\ Cardinality((issued \cup {out.res.token}) \ {NoToken}) <= MaxIssued
        /\ user_sessions' = out.sessions
        /\ issued' = (issued \cup {out.res.token}) \ {NoToken}
        /\ last' = [req |-> Request(NoHeader, message, signature, NoAddr, fault),
                    res |-> out.res]
        /\ UNCHANGED <<now, ticks, users, revoked>>

GetMe(header, fault) ==
    LET out == MeRoute(header, now, user_sessions, fault)
    IN  /\ user_sessions' = out.sessions
        /\ last' = [req |-> Request(header, NoMessage, NoSignature, NoAddr, fault),
                    res |-> out.res]
        /\ UNCHANGED <<now, ticks, users, issued, revoked>>

PostSignout(header, fault) ==
    LET out == SignoutRoute(header, now, user_sessions, fault)
    IN  /\ user_sessions' = out.sessions
        /\ revoked' = IF out.res.status = 200
                      THEN revoked \cup ({header.token} \cap issued) ELSE revoked
        /\ last' = [req |-> Request(header, NoMessage, NoSignature, NoAddr, fault),
                    res |-> out.res]
        /\ UNCHANGED <<now, ticks, users, issued>>

\* The start-up sweep and every 12-hour tick of setInterval.
Sweep(fault) ==
    /\ user_sessions' = cleanupExpiredSessions(now, user_sessions, fault).sessions
    /\ UNCHANGED <<now, ticks, users, issued, revoked, last>>

ServerInit ==
    /\ now = 0
    /\ ticks = 0
    /\ users = {}
    /\ user_sessions = {}
    /\ issued = {}
    /\ revoked = {}
    /\ last = [req |-> NoRequest, res |-> NoResponse]

ServerNext ==
    \/ \E d \in TickSteps : Tick(d) /\ UNCHANGED <<clientVars, cacheVars, sweeper, overlapVars, fetched>>
    \/ \E a \in Addrs, f \in {NoFault, "users.select"} :
          GetCheckUser(a, f) /\ UNCHANGED <<clientVars, cacheVars, sweeper, overlapVars, fetched>>
    \/ \E h \in Headers, a \in Addrs \cup {NoAddr},
          f \in {NoFault, "users.select"} :
          PostCreateUser(h, a, f) /\ UNCHANGED <<clientVars, cacheVars, sweeper, overlapVars, fetched>>
    \/ \E m \in Messages : \E s \in SignaturesFor(m) :
          \E f \in {NoFault, "users.select", "sessions.insert",
                    "sessions.insert.23503"} :
             PostSignin(m, s, f) /\ UNCHANGED <<clientVars, cacheVars, sweeper, overlapVars, fetched>>
    \/ \E h \in Headers, f \in {NoFault, "sessions.select", "sessions.delete"} :
          GetMe(h, f) /\ UNCHANGED <<clientVars, cacheVars, sweeper, overlapVars, fetched>>
    \/ \E h \in Headers, f \in {NoFault, "sessions.delete"} :
          PostSignout(h, f) /\ UNCHANGED <<clientVars, cacheVars, sweeper, overlapVars, fetched>>
    \/ \E f \in {NoFault, "sessions.delete"} :
          Sweep(f) /\ UNCHANGED <<clientVars, cacheVars, sweeper, overlapVars, fetched>>

\* ------------------------------------------------------------------------
\* Client: token store (cheshire/src/store/supabaseAuthStore.ts)
\* ------------------------------------------------------------------------
NoAlert == ""

InitialStore ==
    [isAuthenticated |-> FALSE, isAuthenticating |-> FALSE,
     userAddress |-> NoAddr, userExists |-> FALSE, isCheckingUser |-> FALSE,
     serverError |-> FALSE, jwtToken |-> NoToken]

\* Keys the wallet libraries keep: in localStorage, in sessionStorage.
WalletLocalKeys == {"wagmi.store", "rainbowkit.recent"}
WalletSessionKeys == {"walletconnect.session"}

\* key.includes(part), for the keys and parts that occur.
KeyIncludes(key, part) ==
    \/ key = part
    \/ key = "wagmi.store" /\ part = "wagmi"
    \/ key = "rainbowkit.recent" /\ part = "rainbow"
    \/ key = "walletconnect.session" /\ part \in {"wallet", "walletconnect"}

\* The page-side state the store and the hooks work on, as one value.
Page == [store |-> store, storage |-> storage, timers |-> timers, calls |-> calls]

\* decodeJWT: the payload without verification.
decodeJWT(token) ==
    [wallet_address |-> token.wallet_address, iat |-> token.iat,
     exp |-> token.exp, iss |-> token.iss, sub |-> token.sub]

\* isTokenExpired: exp missing, or exp < floor(Date.now() / 1000).
isTokenExpired(token, nowMs) ==
    \/ token = NoToken
    \/ decodeJWT(token).exp = 0
    \/ decodeJWT(token).exp < nowMs \div 1000

getStoredToken(pg) == pg.storage.jwt

storeToken(pg, token) == [pg EXCEPT !.storage.jwt = token]

removeToken(pg) == [pg EXCEPT !.storage.jwt = NoToken]

\* setAuthenticated(isAuthenticated, address = null, token = null)
setAuthenticated(pg, isAuthenticated, address, token) ==
    LET p1 == IF token # NoToken THEN storeToken(pg, token) ELSE pg
    IN  [p1 EXCEPT !.store.isAuthenticated = isAuthenticated,
                   !.store.userAddress = address,
                   !.store.jwtToken = token,
                   !.store.isAuthenticating = FALSE,
                   !.store.userExists = isAuthenticated]

\* An asynchronous call that has started and not resolved. phase: "sent" (the
\* request is on its way), "answered" (res is on its way back), "local" (no
\* request: waiting for the nonce fetch and the wallet's signature). by: who
\* awaits it. overtaken: a logout has completed since the call started.
Call(kind, by, address, token) ==
    [kind |-> kind, by |-> by, address |-> address, token |-> token,
     message |-> NoMessage, signature |-> NoSignature,
     phase |-> IF kind = "sign" THEN "local" ELSE "sent",
     res |-> NoResponse, overtaken |-> FALSE, copy |-> 0]

\* The call as it joins the pending ones: a twin of a pending call gets the
\* first free copy number.
Started(pending, call) ==
    LET taken == {c.copy : c \in {d \in pending : [d EXCEPT !.copy = 0] = call}}
    IN  [call EXCEPT !.copy = CHOOSE k \in 0..Cardinality(pending) :
                                 k \notin taken /\ \A j \in 0..(k-1) : j \in taken]

StartCall(pg, call) == [pg EXCEPT !.calls = @ \cup {Started(@, call)}]

\* checkUserStatus up to its fetch.
checkUserStatus(pg, walletAddress, by) ==
    StartCall([pg EXCEPT !.store.isCheckingUser = TRUE],
              Call("checkUser", by, walletAddress, NoToken))

\* checkUserStatus from the resolution of its fetch: ok = the fetch resolved,
\* res = the response.
checkUserStatusDone(pg, ok, res) ==
    IF ok /\ res.status >= 200 /\ res.status <= 299
    THEN [pg EXCEPT !.store.userExists = res.exists,
                    !.store.isCheckingUser = FALSE,
                    !.store.serverError = FALSE]
    ELSE [pg EXCEPT !.store.isCheckingUser = FALSE,
                    !.store.serverError = TRUE]

\* What checkUserStatus returns: exists.
checkUserStatusExists(ok, res) ==
    ok /\ res.status >= 200 /\ res.status <= 299 /\ res.exists

\* signIn up to its fetch.
signIn(pg, walletAddress, message, signature, by) ==
    StartCall([pg EXCEPT !.store.isAuthenticating = TRUE],
              [Call("signIn", by, walletAddress, NoToken) EXCEPT
                 !.message = message, !.signature = signature])

\* Mutant of signInDone: a failed sign-in leaves isAuthenticating set.
signInDone_KeepsAuthenticating(pg, walletAddress, ok, res) ==
    IF ~ok
    THEN [pg EXCEPT !.store.serverError = TRUE]
    ELSE IF res.success /\ res.token # NoToken
         THEN setAuthenticated(pg, TRUE, walletAddress, res.token)
         ELSE pg

\* What signIn returns: { success, token } or { success: false, error }.
signInReturn(ok, res) ==
    IF ~ok
    THEN [success |-> FALSE, token |-> NoToken, error |-> "Network error occurred"]
    ELSE IF res.success /\ res.token # NoToken
         THEN [success |-> TRUE, token |-> res.token, error |-> ""]
         ELSE [success |-> FALSE, token |-> NoToken,
               error |-> IF res.needsSetup THEN "Profile setup required"
                         ELSE "data.error || 'Sign in failed'"]

\* handleSignIn's alert for what checkUserStatus returned: it returns
\* { exists: false, needsSetup: true } also for a response that is not ok and
\* for a fetch that rejected.
checkUserStatusAlert(ok, res) ==
    IF checkUserStatusExists(ok, res) THEN NoAlert
    ELSE "Please complete your profile setup first by going to the Setup page."

\* handleSignIn's alert for what signIn returned.
signInAlert(signInResult) ==
    IF signInResult.success THEN NoAlert
    ELSE IF signInResult.error = "Profile setup required"
    THEN "Please complete your profile setup first."
    ELSE IF signInResult.error = "Network error occurred"
    THEN "Sign in failed: Network error occurred"
    ELSE "Sign in failed: data.error || 'Sign in failed'"

\* signIn from the resolution of its fetch.
signInDone(pg, walletAddress, ok, res) ==
    IF ~ok
    THEN [pg EXCEPT !.store.isAuthenticating = FALSE,
                    !.store.serverError = TRUE]
    ELSE IF res.success /\ res.token # NoToken
         THEN setAuthenticated(pg, TRUE, walletAddress, res.token)
         ELSE [pg EXCEPT !.store.isAuthenticating = FALSE]

\* logout from the point where its sign-out fetch has settled (or was not
\* made): removeToken and the cleared state. A logout that completes
\* overtakes every sign-in that is still pending.
logoutDone(pg) ==
    LET p1 == removeToken(pg)
    IN  [p1 EXCEPT !.store.isAuthenticated = FALSE,
                   !.store.userAddress = NoAddr,
                   !.store.userExists = FALSE,
                   !.store.jwtToken = NoToken,
                   !.store.serverError = FALSE,
                   !.calls = {IF c.kind = "signIn"
                              THEN [c EXCEPT !.overtaken = TRUE] ELSE c : c \in @}]

\* logout up to its fetch; with no token held there is no fetch and the
\* function runs to its end.
logout(pg, by) ==
    IF pg.store.jwtToken # NoToken
    THEN StartCall(pg, Call("logout", by, NoAddr, pg.store.jwtToken))
    ELSE logoutDone(pg)

\* Mutant of initializeAuth: a stored token is not trusted until the server
\* has confirmed it.
initializeAuth_AsksServer(pg, nowMs) ==
    LET storedToken == getStoredToken(pg)
        cleared == [pg EXCEPT !.store.isAuthenticated = FALSE,
                              !.store.userAddress = NoAddr,
                              !.store.userExists = FALSE,
                              !.store.jwtToken = NoToken]
    IN  IF storedToken = NoToken THEN cleared
        ELSE IF isTokenExpired(storedToken, nowMs) THEN removeToken(cleared)
        ELSE StartCall(cleared, Call("checkUser", "hook",
                                     decodeJWT(storedToken).wallet_address,
                                     NoToken))

\* initializeAuth: restore the session from the stored token.
initializeAuth(pg, nowMs) ==
    LET storedToken == getStoredToken(pg)
        cleared == [pg EXCEPT !.store.isAuthenticated = FALSE,
                              !.store.userAddress = NoAddr,
                              !.store.userExists = FALSE,
                              !.store.jwtToken = NoToken]
    IN  IF storedToken = NoToken THEN cleared
        ELSE IF isTokenExpired(storedToken, nowMs) THEN removeToken(cleared)
        ELSE IF decodeJWT(storedToken).wallet_address # NoAddr
        THEN [pg EXCEPT !.store.isAuthenticated = TRUE,
                        !.store.userAddress = decodeJWT(storedToken).wallet_address,
                        !.store.userExists = TRUE,
                        !.store.jwtToken = storedToken]
        ELSE removeToken(cleared)

\* setUserExists(exists)
setUserExists(pg, exists) == [pg EXCEPT !.store.userExists = exists]

\* getAuthHeaders: {} with no token held; {} and logout() (not awaited) for a
\* token that isTokenExpired; otherwise the Authorization header.
getAuthHeaders(pg, nowMs) ==
    IF pg.store.jwtToken = NoToken
    THEN [headers |-> NoHeader, page |-> pg]
    ELSE IF isTokenExpired(pg.store.jwtToken, nowMs)
    THEN [headers |-> NoHeader, page |-> logout(pg, "getAuthHeaders")]
    ELSE [headers |-> Bearer(pg.store.jwtToken), page |-> pg]

\* ------------------------------------------------------------------------
\* Client: wallet sync hook (cheshire/src/hooks/useWalletAuthSync.ts)
\* ------------------------------------------------------------------------
\* Mutant of clearWalletData: the JWT key is not among the localStorage keys
\* removed.
clearWalletData_KeepsJwtKey(pg) ==
    LET parts == {"rainbow", "wallet", "wagmi", "walletconnect"}
        hit(key, ps) == \E q \in ps : KeyIncludes(key, q)
    IN  [pg EXCEPT
           !.storage.jwt = IF hit(JWT_TOKEN_KEY, parts) THEN NoToken ELSE @,
           !.storage.local = {k \in @ : ~hit(k, parts)},
           !.storage.session = {k \in @ : ~hit(k, parts)}]

\* clearWalletData: remove the localStorage keys that include rainbow, wallet,
\* wagmi, walletconnect or the JWT key, and the sessionStorage keys that
\* include one of the first four.
clearWalletData(pg) ==
    LET parts == {"rainbow", "wallet", "wagmi", "walletconnect"}
        hit(key, ps) == \E q \in ps : KeyIncludes(key, q)
    IN  [pg EXCEPT
           !.storage.jwt = IF hit(JWT_TOKEN_KEY, parts \cup {"cheshire_jwt_token"})
                           THEN NoToken ELSE @,
           !.storage.local = {k \in @ : ~hit(k, parts \cup {"cheshire_jwt_token"})},
           !.storage.session = {k \in @ : ~hit(k, parts)}]

\* The wallet as the page sees it: useAccount()'s isConnected and address
\* (undefined while disconnected), and whether the connected chain is one the
\* app supports (chain.unsupported in the Navbar).
Wallet(isConnected, address, chainSupported) ==
    [isConnected |-> isConnected, address |-> address,
     chainSupported |-> chainSupported]

NoWallet == Wallet(FALSE, NoAddr, TRUE)

\* First effect (deps isConnected, isAuthenticated): the wallet is not
\* connected and the store is authenticated. mount = the effect runs because
\* the hook has just mounted.
DisconnectEffect(pg, w0, auth0, w1, auth1, mount) ==
    IF (mount \/ w0.isConnected # w1.isConnected \/ auth0 # auth1)
       /\ ~w1.isConnected /\ auth1
    THEN LET p1 == clearWalletData(logout(pg, "disconnect"))
         IN  [p1 EXCEPT !.timers = @ \cup {"home"}]
    ELSE pg

\* Second effect (deps address): skipped on mount; afterwards, the address
\* differs from a previous, non-empty one.
AddressEffect(pg, prev, w0, w1, mount) ==
    IF ~mount /\ w0.address # w1.address /\ prev # NoAddr /\ prev # w1.address
    THEN LET p1 == clearWalletData(logout(pg, "addressChange"))
         IN  [p1 EXCEPT !.timers = @ \cup {"reload"}]
    ELSE pg

\* Third effect (deps isConnected, address, isAuthenticated): connected with
\* an address and not authenticated.
CheckUserEffect(pg, w0, auth0, w1, auth1, mount) ==
    IF (mount \/ w0.isConnected # w1.isConnected \/ w0.address # w1.address
          \/ auth0 # auth1)
       /\ w1.isConnected /\ w1.address # NoAddr /\ ~auth1
    THEN checkUserStatus(pg, w1.address, "hook")
    ELSE pg

\* The effects of the commit that follows a change from (w0, auth0) to
\* (w1, auth1), in the order the hook declares them.
Effects(pg, prev, w0, auth0, w1, auth1, mount) ==
    CheckUserEffect(
        AddressEffect(DisconnectEffect(pg, w0, auth0, w1, auth1, mount),
                      prev, w0, w1, mount),
        w0, auth0, w1, auth1, mount)

\* A change of the wallet or the store, followed by the commits it causes: the
\* effects of the first commit may themselves change isAuthenticated (a logout
\* that runs to its end), which causes a second commit.
Commit(pg, prev, w0, auth0, w1, mount) ==
    LET p1 == Effects(pg, prev, w0, auth0, w1, pg.store.isAuthenticated, mount)
    IN  IF p1.store.isAuthenticated # pg.store.isAuthenticated
        THEN Effects(p1, w1.address, w1, pg.store.isAuthenticated, w1,
                     p1.store.isAuthenticated, FALSE)
        ELSE p1

\* CustomSignIn is rendered by the Navbar while the wallet is connected on a
\* supported chain and the store is not authenticated.
SignInMounted(w, st) == w.isConnected /\ w.chainSupported /\ ~st.isAuthenticated

\* Mutant of ProtectedRoute: the profile check is left out.
ProtectedRoute_SkipsProfileCheck(st) ==
    IF st.isAuthenticating THEN "loading"
    ELSE IF ~st.isAuthenticated THEN "Navigate to /"
    ELSE "children"

\* What ProtectedRoute renders for the store state st.
ProtectedRoute(st) ==
    IF st.isAuthenticating THEN "loading"
    ELSE IF ~st.isAuthenticated THEN "Navigate to /"
    ELSE IF ~st.userExists THEN "Navigate to /setup"
    ELSE "children"

\* What SetupGuard renders around the setup page.
SetupGuard(w, st) ==
    IF st.isCheckingUser \/ st.isAuthenticating THEN "loading"
    ELSE IF ~w.isConnected \/ w.address = NoAddr THEN "Navigate to /"
    ELSE IF st.isAuthenticated /\ st.userExists THEN "Navigate to /proposals"
    ELSE IF st.userExists /\ ~st.isAuthenticated THEN "Navigate to /"
    ELSE "children"

\* Calls awaited by a CustomSignIn instance that has unmounted go on without
\* it: what they set is no longer the state of a rendered component.
Orphaned(cs) ==
    {IF c.by = "button" THEN [c EXCEPT !.by = "orphan"] ELSE c : c \in cs}

\* The page after a handler or continuation: pg is what it produced, w1 the
\* wallet state, ld the loading flag it leaves in the CustomSignIn instance;
\* the commit that follows runs the hook's effects. An instance that unmounts
\* loses its state, and a new one starts with loading = false.
\* window.alert blocks the page's scripts until it is dismissed, so a handler
\* runs only while none is shown; al is the alert the handler ends on.
SettleAlert(pg, w1, ld, al) ==
    LET p1 == Commit(pg, prevAddressRef, wallet, store.isAuthenticated, w1, FALSE)
        stays == SignInMounted(wallet, store) /\ SignInMounted(w1, p1.store)
    IN  /\ alert = NoAlert
        /\ alert' = al
        /\ Cardinality(p1.calls) <= MaxCalls
        /\ store' = p1.store
        /\ storage' = p1.storage
        /\ timers' = p1.timers
        /\ calls' = IF SignInMounted(w1, p1.store) THEN p1.calls
                    ELSE Orphaned(p1.calls)
        /\ wallet' = w1
        /\ prevAddressRef' = w1.address
        /\ loading' = (stays /\ ld)

Settle(pg, w1, ld) == SettleAlert(pg, w1, ld, NoAlert)

\* ------------------------------------------------------------------------
\* Cached store (useAuthStore, second half of store/supabaseAuthStore.ts)
\* ------------------------------------------------------------------------
\* The store's initial state.
InitialAuthStore ==
    [isAuthenticated |-> FALSE, isAuthenticating |-> FALSE,
     userAddress |-> NoAddr, userExists |-> FALSE, isCheckingUser |-> FALSE,
     serverError |-> FALSE, lastCacheCheck |-> 0]

\* What localStorage holds under CACHE_KEY: nothing, a serialized AuthCache,
\* or text that JSON.parse rejects.
NoCache ==
    [kind |-> "none", isAuthenticated |-> FALSE, userAddress |-> NoAddr,
     userExists |-> FALSE, timestamp |-> 0]

AuthCache(isAuthenticated, userAddress, userExists, timestamp) ==
    [kind |-> "entry", isAuthenticated |-> isAuthenticated,
     userAddress |-> userAddress, userExists |-> userExists,
     timestamp |-> timestamp]

Unparseable == [NoCache EXCEPT !.kind = "unparseable"]

\* The store, the stored record and the pending calls of the page.
CachedPage == [store |-> authStore, cache |-> authCache, calls |-> authCalls]

\* Mutant of getCachedAuth: the parse error is not caught.
getCachedAuth_ParseErrorEscapes(cache, nowMs) ==
    IF cache.kind = "none"
    THEN [value |-> NoCache, cache |-> cache, threw |-> FALSE, found |-> "none"]
    ELSE IF cache.kind = "unparseable"
    THEN [value |-> NoCache, cache |-> cache, threw |-> TRUE, found |-> "unparseable"]
    ELSE IF nowMs - cache.timestamp > CACHE_DURATION
    THEN [value |-> NoCache, cache |-> NoCache, threw |-> FALSE, found |-> "expired"]
    ELSE [value |-> cache, cache |-> cache, threw |-> FALSE, found |-> "entry"]

\* Mutant of getCachedAuth: an expired record is reported as a miss but left
\* in storage.
getCachedAuth_KeepsExpired(cache, nowMs) ==
    IF cache.kind = "none"
    THEN [value |-> NoCache, cache |-> cache, threw |-> FALSE, found |-> "none"]
    ELSE IF cache.kind = "unparseable"
    THEN [value |-> NoCache, cache |-> NoCache, threw |-> FALSE, found |-> "unparseable"]
    ELSE IF nowMs - cache.timestamp > CACHE_DURATION
    THEN [value |-> NoCache, cache |-> cache, threw |-> FALSE, found |-> "expired"]
    ELSE [value |-> cache, cache |-> cache, threw |-> FALSE, found |-> "entry"]

\* getCachedAuth: value is what it returns (NoCache for null), cache what it
\* leaves in storage, threw whether an exception reaches the caller, found
\* what it met in storage.
getCachedAuth(cache, nowMs) ==
    IF cache.kind = "none"
    THEN [value |-> NoCache, cache |-> cache, threw |-> FALSE, found |-> "none"]
    ELSE IF cache.kind = "unparseable"
    THEN [value |-> NoCache, cache |-> NoCache, threw |-> FALSE, found |-> "unparseable"]
    ELSE IF nowMs - cache.timestamp > CACHE_DURATION
    THEN [value |-> NoCache, cache |-> NoCache, threw |-> FALSE, found |-> "expired"]
    ELSE [value |-> cache, cache |-> cache, threw |-> FALSE, found |-> "entry"]

setCachedAuth(cp, isAuthenticated, userAddress, userExists, nowMs) ==
    [cp EXCEPT !.cache = AuthCache(isAuthenticated, userAddress, userExists, nowMs)]

clearCachedAuth(cp) == [cp EXCEPT !.cache = NoCache]

\* A pending call of the cached store: at is the `now` checkAuthStatus took
\* before its fetch, isAuthenticated and userAddress the `state` that
\* checkUserExists took before its fetch. overtaken marks a call that a
\* completed logout or clearCache found pending, and the calls its
\* continuation starts; found is what checkAuthStatus's cache read found
\* before the fetch ("forced" when there was none).
CachedCall(kind, at, isAuthenticated, userAddress, overtaken, found) ==
    [kind |-> kind, at |-> at, isAuthenticated |-> isAuthenticated,
     userAddress |-> userAddress, overtaken |-> overtaken, found |-> found,
     copy |-> 0]

StartCachedCall(cp, call) == [cp EXCEPT !.calls = @ \cup {Started(@, call)}]

Overtake(cp) ==
    [cp EXCEPT !.calls = {[c EXCEPT !.overtaken = TRUE] : c \in @}]

\* checkUserExists up to its fetch.
checkUserExists(cp, forceCheck, nowMs, overtaken) ==
    LET state == cp.store
        read == getCachedAuth(cp.cache, nowMs)
        p1 == [cp EXCEPT !.cache = read.cache]
    IN  IF ~state.isAuthenticated \/ state.userAddress = NoAddr
        THEN [cp EXCEPT !.store.userExists = FALSE,
                        !.store.isCheckingUser = FALSE]
        ELSE IF ~forceCheck /\ read.threw THEN cp
        ELSE IF ~forceCheck /\ read.value.kind = "entry"
                /\ read.value.userAddress = state.userAddress
        THEN [p1 EXCEPT !.store.userExists = read.value.userExists,
                        !.store.isCheckingUser = FALSE]
        ELSE StartCachedCall(
                 [(IF forceCheck THEN cp ELSE p1)
                     EXCEPT !.store.isCheckingUser = TRUE],
                 CachedCall("checkUserExists", 0, state.isAuthenticated,
                            state.userAddress, overtaken, "forced"))

\* checkUserExists after its fetch: outcome is "ok" (response.ok), "notok", or
\* "failed" (the fetch or response.json() rejected).
checkUserExistsDone(cp, call, outcome, exists, nowMs) ==
    IF outcome = "ok"
    THEN LET p1 == setCachedAuth(cp, call.isAuthenticated, call.userAddress,
                                 exists, nowMs)
         IN  [p1 EXCEPT !.store.userExists = exists,
                        !.store.isCheckingUser = FALSE]
    ELSE [cp EXCEPT !.store.userExists = FALSE, !.store.isCheckingUser = FALSE]

\* setAuthenticated of the cached store.
setAuthenticatedCached(cp, isAuthenticated, address, nowMs) ==
    LET p1 == [cp EXCEPT !.store.isAuthenticated = isAuthenticated,
                         !.store.userAddress = address,
                         !.store.isAuthenticating = FALSE,
                         !.store.lastCacheCheck = nowMs]
    IN  IF isAuthenticated /\ address # NoAddr
        THEN checkUserExists(p1, FALSE, nowMs, FALSE)
        ELSE [setCachedAuth(p1, isAuthenticated, address, FALSE, nowMs)
                 EXCEPT !.store.userExists = FALSE]

clearCache(cp) ==
    Overtake([clearCachedAuth(cp) EXCEPT !.store.isAuthenticated = FALSE,
                                         !.store.userAddress = NoAddr,
                                         !.store.userExists = FALSE,
                                         !.store.isCheckingUser = FALSE,
                                         !.store.lastCacheCheck = 0])

\* checkAuthStatus up to its fetch.
checkAuthStatus(cp, forceCheck, nowMs) ==
    LET read == getCachedAuth(cp.cache, nowMs)
    IN  IF ~forceCheck /\ read.threw THEN cp
        ELSE IF ~forceCheck /\ read.value.kind = "entry"
        THEN [cp EXCEPT !.store.isAuthenticated = read.value.isAuthenticated,
                        !.store.userAddress = read.value.userAddress,
                        !.store.userExists = read.value.userExists,
                        !.store.isAuthenticating = FALSE,
                        !.store.isCheckingUser = FALSE,
                        !.store.serverError = FALSE,
                        !.store.lastCacheCheck = nowMs]
        ELSE StartCachedCall(
                 [cp EXCEPT !.cache = IF forceCheck THEN @ ELSE read.cache,
                            !.store.isAuthenticating = TRUE],
                 CachedCall("checkAuthStatus", nowMs, FALSE, NoAddr, FALSE,
                            IF forceCheck THEN "forced" ELSE read.found))

\* checkAuthStatus after its fetch: ok is whether the fetch and
\* response.json() resolved (the 5 s abort rejects the fetch); isAuth and
\* address are data.authenticated || false and data.address || null.
checkAuthStatusDone(cp, call, ok, isAuth, address, nowMs) ==
    IF ok
    THEN LET p1 == [cp EXCEPT !.store.isAuthenticated = isAuth,
                              !.store.userAddress = address,
                              !.store.isAuthenticating = FALSE,
                              !.store.serverError = FALSE,
                              !.store.lastCacheCheck = call.at]
         IN  IF isAuth /\ address # NoAddr
             THEN checkUserExists(p1, FALSE, nowMs, call.overtaken)
             ELSE [setCachedAuth(p1, isAuth, address, FALSE, nowMs)
                      EXCEPT !.store.userExists = FALSE,
                             !.store.isCheckingUser = FALSE]
    ELSE [clearCachedAuth(cp) EXCEPT !.store.isAuthenticated = FALSE,
                                     !.store.userAddress = NoAddr,
                                     !.store.userExists = FALSE,
                                     !.store.isAuthenticating = FALSE,
                                     !.store.isCheckingUser = FALSE,
                                     !.store.serverError = TRUE,
                                     !.store.lastCacheCheck = call.at]

\* logout of the cached store up to its fetch.
logoutCached(cp) ==
    StartCachedCall(cp, CachedCall("logout", 0, FALSE, NoAddr, FALSE, "forced"))

\* logout of the cached store after its fetch, resolved (ok) or rejected.
logoutCachedDone(cp, ok, nowMs) ==
    Overtake([clearCachedAuth(cp) EXCEPT !.store.isAuthenticated = FALSE,
                                         !.store.userAddress = NoAddr,
                                         !.store.userExists = FALSE,
                                         !.store.isCheckingUser = FALSE,
                                         !.store.serverError = ~ok,
                                         !.store.lastCacheCheck = nowMs])

CacheInit ==
    /\ authStore = InitialAuthStore
    /\ authCache = NoCache
    /\ authCalls = {}
    /\ mountedAt = -1

\* The server process after the module has been evaluated: the start-up
\* sweep has been called and the 12-hour interval is set.
SweeperInit ==
    sweeper = [process |-> "running", interval |-> TRUE, startup |-> FALSE,
               runs |-> 0, justSwept |-> FALSE, failed |-> FALSE,
               threw |-> FALSE, returned |-> "none", recovered |-> FALSE]

ClientInit ==
    /\ store = InitialStore
    /\ storage = [jwt |-> NoToken, local |-> {}, session |-> {}]
    /\ wallet = NoWallet
    /\ prevAddressRef = NoAddr
    /\ loading = FALSE
    /\ timers = {}
    /\ calls = {}
    /\ alert = NoAlert

\* No store operation has started, and the page has fetched nothing.
OverlapInit ==
    /\ ops = {}
    /\ batch = [base |-> {}, done |-> {}, overlapped |-> FALSE, noop |-> FALSE]

FetchInit == fetched = [made |-> FALSE, header |-> NoHeader]

Init ==
    /\ ServerInit /\ ClientInit /\ CacheInit /\ SweeperInit
    /\ OverlapInit /\ FetchInit

SpecServer == Init /\ [][ServerNext]_vars

\* ------------------------------------------------------------------------
\* Server: the cleanup schedule (part_011, lines 57-77)
\* ------------------------------------------------------------------------
\* Faults a sweep can meet: the store answers with an error, or the call
\* throws.
SweepFaults == {NoFault, "sessions.delete", "sessions.delete.throws"}

\* The try/catch around `await cleanupExpiredSessions()` in both callers:
\* what becomes of an exception.
SweepCallback(out) == IF out.threw THEN "caught" ELSE "completed"

\* Mutant of setInterval: the callback is scheduled once (setTimeout).
setInterval_OneShot(armed) == FALSE

\* setInterval: the timer stays set after its callback has run; nothing in
\* the server clears it.
setInterval(armed) == armed

\* One run of cleanupExpiredSessions from the schedule.
RunSweep(fault, fromInterval) ==
    LET out == cleanupExpiredSessions(now, user_sessions, fault)
    IN  /\ sweeper.process = "running"
        /\ sweeper.runs < MaxSweeps
        /\ Sweep(fault)
        /\ sweeper' =
              [process |-> IF SweepCallback(out) = "unhandled" THEN "exited"
                           ELSE "running",
               interval |-> IF fromInterval THEN setInterval(sweeper.interval)
                            ELSE sweeper.interval,
               startup |-> sweeper.startup \/ ~fromInterval,
               runs |-> sweeper.runs + 1,
               justSwept |-> TRUE,
               failed |-> fault # NoFault,
               threw |-> out.threw,
               returned |-> out.returned,
               recovered |-> sweeper.failed]
        /\ UNCHANGED <<clientVars, cacheVars, overlapVars, fetched>>

\* The sweep the server makes when it starts.
StartupSweep(fault) ==
    /\ ~sweeper.startup
    /\ RunSweep(fault, FALSE)

\* The interval's callback, every 12 hours; the first comes 12 hours after
\* the start-up sweep was called.
IntervalSweep(fault) ==
    /\ sweeper.startup
    /\ sweeper.interval
    /\ RunSweep(fault, TRUE)

\* A step of the server that is not a sweep.
NoSweep == sweeper' = [sweeper EXCEPT !.justSwept = FALSE]

SweeperNext ==
    \/ \E d \in TickSteps : Tick(d) /\ NoSweep /\ UNCHANGED <<clientVars, cacheVars, overlapVars, fetched>>
    \/ \E a \in Addrs :
          PostCreateUser(NoHeader, a, NoFault) /\ NoSweep
             /\ UNCHANGED <<clientVars, cacheVars, overlapVars, fetched>>
    \/ \E a \in Addrs, n \in Nonces :
          PostSignin(Message(a, n), Signature(ToLowerCase(a), Message(a, n)),
                     NoFault)
             /\ NoSweep /\ UNCHANGED <<clientVars, cacheVars, overlapVars, fetched>>
    \/ \E h \in Headers, f \in {NoFault, "sessions.select"} :
          GetMe(h, f) /\ NoSweep /\ UNCHANGED <<clientVars, cacheVars, overlapVars, fetched>>
    \/ \E f \in SweepFaults : StartupSweep(f)
    \/ \E f \in SweepFaults : IntervalSweep(f)

SpecSweeper == Init /\ [][SweeperNext]_vars

\* ------------------------------------------------------------------------
\* Server: store operations that overlap (server/utils/supabaseAuth.js)
\* ------------------------------------------------------------------------
\* Each function awaits its store calls, so the statements of one call run
\* between those of another. Only calls that reach the store are followed: a
\* token that jwt.verify rejects ends verifyAuthToken and invalidateSession
\* before any statement.

\* Clock advances while operations overlap, in ms: half a second short of one
\* session duration, and just over half a second.
OverlapSteps == {SESSION_DURATION * 1000 - 500, 501}

\* A call that has started: which of the calls of its kind for its token it is
\* (copy), the new Date() it has read (cutoff for the sweep's
\* filter, at for verifyAuthToken's comparison; -1 before it is read), the
\* statement it waits for (phase), the rows its select returned, whether a
\* statement answered with an error, and what it returned.
Op(copy, kind, token, cutoff, phase) ==
    [copy |-> copy, kind |-> kind, token |-> token, cutoff |-> cutoff, at |-> -1,
     phase |-> phase, rows |-> {}, error |-> FALSE, result |-> "pending"]

\* A call starts; the first one fixes the store the batch began with.
StartOp(kind, token, cutoff, phase) ==
    LET started == ops \cup batch.done
        copy == Cardinality({o \in started : o.kind = kind /\ o.token = token})
    IN  /\ Cardinality(started) < MaxOps
        /\ ops' = ops \cup {Op(copy, kind, token, cutoff, phase)}
        /\ batch' = IF started = {}
                    THEN [base |-> user_sessions, done |-> {},
                          overlapped |-> FALSE, noop |-> FALSE]
                    ELSE [batch EXCEPT !.overlapped = @ \/ ops # {}]
        /\ UNCHANGED <<serverVars, clientVars, cacheVars, sweeper, fetched>>

\* cleanupExpiredSessions is called and sends its delete.
StartCleanup == StartOp("cleanupExpiredSessions", NoToken, now, "delete")

\* invalidateSession(token): jwt.verify passes and the delete is sent.
StartInvalidate(token) ==
    /\ JwtVerify(token, now)
    /\ StartOp("invalidateSession", token, -1, "delete")

\* verifyAuthToken(token): jwt.verify passes and the select is sent.
StartVerify(token) ==
    /\ JwtVerify(token, now)
    /\ StartOp("verifyAuthToken", token, -1, "select")

\* The call op ends with result; ended calls are kept with the batch.
EndOp(op, ended, sessions, noop) ==
    /\ ops' = ops \ {op}
    /\ batch' = [batch EXCEPT !.done = @ \cup {ended},
                              !.noop = @ \/ noop]
    /\ user_sessions' = sessions
    /\ UNCHANGED <<now, ticks, users, issued, revoked, last>>
    /\ UNCHANGED <<clientVars, cacheVars, sweeper, fetched>>

\* The database runs the statement op waits for, and the function runs on to
\* its end or its next await.
DbExec(op) ==
    /\ op \in ops
    /\ CASE op.kind = "cleanupExpiredSessions" /\ op.phase = "delete" ->
              LET out == SweepStatement(user_sessions, op.cutoff)
              IN  EndOp(op, [op EXCEPT !.phase = "ended", !.error = out.error,
                                        !.result = "undefined"],
                        out.sessions,
                        /\ out.sessions = user_sessions
                        /\ SweepStatement(batch.base, op.cutoff).sessions
                              # batch.base)
         [] op.kind = "invalidateSession" /\ op.phase = "delete" ->
              LET out == InvalidateStatement(user_sessions, op.token)
              IN  EndOp(op, [op EXCEPT !.phase = "ended", !.error = out.error,
                                        !.result = IF out.error THEN "false"
                                                   ELSE "true"],
                        out.sessions,
                        /\ out.sessions = user_sessions
                        /\ InvalidateStatement(batch.base, op.token).sessions
                              # batch.base)
         [] op.kind = "verifyAuthToken" /\ op.phase = "select" ->
              /\ ops' = (ops \ {op}) \cup
                           {[op EXCEPT !.phase = "selected",
                                       !.rows = SelectSession(user_sessions,
                                                   op.token,
                                                   op.token.wallet_address)]}
              /\ UNCHANGED <<serverVars, batch>>
              /\ UNCHANGED <<clientVars, cacheVars, sweeper, fetched>>
         [] op.kind = "verifyAuthToken" /\ op.phase = "delete" ->
              LET out == VerifyDeleteStatement(user_sessions, op.token)
              IN  EndOp(op, [op EXCEPT !.phase = "ended", !.result = "null"],
                        out.sessions, out.sessions = user_sessions)
         [] OTHER -> FALSE

\* verifyAuthToken from the answer of its select: null unless exactly one row
\* came back (.single()); the row's expires_at against new Date(); the
\* clean-up delete of a row that is past; { walletAddress, isValid }.
VerifyContinue(op) ==
    /\ op \in ops
    /\ op.kind = "verifyAuthToken"
    /\ op.phase = "selected"
    /\ LET read == [op EXCEPT !.at = now]
       IN  IF Cardinality(op.rows) # 1
           THEN EndOp(op, [read EXCEPT !.phase = "ended", !.result = "null"],
                      user_sessions, FALSE)
           ELSE IF (CHOOSE r \in op.rows : TRUE).expires_at < now
           THEN /\ ops' = (ops \ {op}) \cup {[read EXCEPT !.phase = "delete"]}
                /\ UNCHANGED <<serverVars, batch>>
                /\ UNCHANGED <<clientVars, cacheVars, sweeper, fetched>>
           ELSE EndOp(op, [read EXCEPT !.phase = "ended", !.result = "valid"],
                      user_sessions, FALSE)

\* The same call run with no other call between its statements, on sess.
SerialRun(op, sess) ==
    CASE op.kind = "cleanupExpiredSessions" ->
           SweepStatement(sess, op.cutoff).sessions
      [] op.kind = "invalidateSession" ->
           InvalidateStatement(sess, op.token).sessions
      [] op.kind = "verifyAuthToken" ->
           LET rows == SelectSession(sess, op.token, op.token.wallet_address)
           IN  IF Cardinality(rows) = 1
                  /\ (CHOOSE r \in rows : TRUE).expires_at < op.at
               THEN VerifyDeleteStatement(sess, op.token).sessions
               ELSE sess

\* The stores that running the calls of todo one after another, in any order,
\* can leave.
RECURSIVE SerialResults(_, _)
SerialResults(sess, todo) ==
    IF todo = {} THEN {sess}
    ELSE UNION {SerialResults(SerialRun(o, sess), todo \ {o}) : o \in todo}

\* Profiles are created and sessions issued before the first call starts.
OverlapNext ==
    \/ \E d \in OverlapSteps : Tick(d)
          /\ UNCHANGED <<clientVars, cacheVars, sweeper, overlapVars, fetched>>
    \/ \E a \in Addrs :
          /\ ops = {} /\ batch.done = {}
          /\ PostCreateUser(NoHeader, a, NoFault)
          /\ UNCHANGED <<clientVars, cacheVars, sweeper, overlapVars, fetched>>
    \/ \E a \in Addrs, n \in Nonces :
          /\ ops = {} /\ batch.done = {}
          /\ PostSignin(Message(a, n), Signature(ToLowerCase(a), Message(a, n)),
                        NoFault)
          /\ UNCHANGED <<clientVars, cacheVars, sweeper, overlapVars, fetched>>
    \/ StartCleanup
    \/ \E t \in issued : StartInvalidate(t)
    \/ \E t \in issued : StartVerify(t)
    \/ \E op \in ops : DbExec(op)
    \/ \E op \in ops : VerifyContinue(op)

SpecOverlap == Init /\ [][OverlapNext]_vars

\* ------------------------------------------------------------------------
\* Server: profiles that are deleted (README, user_sessions table)
\* ------------------------------------------------------------------------
\* Mutant of DeleteProfile: the foreign key has no ON DELETE CASCADE action
\* and is not enforced on delete.
DeleteProfile_NoCascade(a) ==
    /\ a \in users
    /\ users' = users \ {a}
    /\ user_sessions' = user_sessions
    /\ UNCHANGED <<now, ticks, issued, revoked, last>>
    /\ UNCHANGED <<clientVars, cacheVars, sweeper, overlapVars, fetched>>

\* A users row is deleted in the database: user_sessions.wallet_address
\* REFERENCES users(wallet_address) ON DELETE CASCADE takes its sessions along.
DeleteProfile(a) ==
    /\ a \in users
    /\ users' = users \ {a}
    /\ user_sessions' = {r \in user_sessions : r.wallet_address # a}
    /\ UNCHANGED <<now, ticks, issued, revoked, last>>
    /\ UNCHANGED <<clientVars, cacheVars, sweeper, overlapVars, fetched>>

\* POST /auth/signin that has passed userDb.exists and waits for
\* createAuthSession's insert: the address of the message and the Date.now()
\* the token and the row were made with.
SigninOp(copy, address, nowMs) ==
    [copy |-> copy, kind |-> "signin", address |-> address, cutoff |-> nowMs,
     phase |-> "insert"]

\* POST /auth/signin for an address with a profile, up to the insert.
StartSignin(a) ==
    /\ UserDbExists(users, a)
    /\ Cardinality(ops) + Cardinality(issued) < MaxIssued
    /\ ops' = ops \cup
                {SigninOp(Cardinality({o \in ops : o.address = a}), a, now)}
    /\ UNCHANGED <<serverVars, batch>>
    /\ UNCHANGED <<clientVars, cacheVars, sweeper, fetched>>

\* What the insert of a sign-in meets: the foreign key fails (23503) when the
\* users row is gone.
InsertFault(op) ==
    IF UserDbExists(users, op.address) THEN NoFault ELSE "sessions.insert.23503"

\* The database runs the insert and the route answers.
InsertExec(op) ==
    /\ op \in ops
    /\ op.kind = "signin"
    /\ LET m == Message(op.address, CHOOSE n \in Nonces : TRUE)
           s == Signature(ToLowerCase(op.address), m)
           out == SigninRoute(m, s, op.cutoff, users \cup {ToLowerCase(op.address)},
                              user_sessions, InsertFault(op))
       IN  /\ Cardinality((issued \cup {out.res.token}) \ {NoToken}) <= MaxIssued
           /\ user_sessions' = out.sessions
           /\ issued' = (issued \cup {out.res.token}) \ {NoToken}
           /\ last' = [req |-> Request(NoHeader, m, s, NoAddr, InsertFault(op)),
                       res |-> out.res]
    /\ ops' = ops \ {op}
    /\ UNCHANGED <<now, ticks, users, revoked, batch>>
    /\ UNCHANGED <<clientVars, cacheVars, sweeper, fetched>>

ProfilesNext ==
    \/ \E d \in TickSteps : Tick(d)
          /\ UNCHANGED <<clientVars, cacheVars, sweeper, overlapVars, fetched>>
    \/ \E a \in Addrs :
          PostCreateUser(NoHeader, a, NoFault)
             /\ UNCHANGED <<clientVars, cacheVars, sweeper, overlapVars, fetched>>
    \/ \E a \in LowerAddrs : DeleteProfile(a)
    \/ \E a \in Addrs : StartSignin(a)
    \/ \E op \in ops : InsertExec(op)

SpecProfiles == Init /\ [][ProfilesNext]_vars


\* ------------------------------------------------------------------------
\* Client: the wallet, the user and the network acting on one page
\* ------------------------------------------------------------------------
\* The wallet library connects account a and keeps its state in storage. The
\* user gets there through the wallet's dialog, which takes longer than the
\* 100 ms of a pending timer.
WalletConnect(a) ==
    /\ ~wallet.isConnected
    /\ timers = {}
    /\ Settle([Page EXCEPT !.storage.local = @ \cup WalletLocalKeys,
                           !.storage.session = @ \cup WalletSessionKeys],
              Wallet(TRUE, a, TRUE), FALSE)
    /\ UNCHANGED <<serverVars, cacheVars, sweeper, overlapVars, fetched>>

\* The wallet library reports disconnection: isConnected false, address
\* undefined.
WalletDisconnect ==
    /\ wallet.isConnected
    /\ Settle(Page, NoWallet, FALSE)
    /\ UNCHANGED <<serverVars, cacheVars, sweeper, overlapVars, fetched>>

\* The wallet library reports another account.
WalletSwitch(a) ==
    /\ wallet.isConnected
    /\ a # wallet.address
    /\ Settle(Page, [wallet EXCEPT !.address = a], loading)
    /\ UNCHANGED <<serverVars, cacheVars, sweeper, overlapVars, fetched>>

\* The wallet moves to a chain the app does not support, or back.
ChainChanged ==
    /\ wallet.isConnected
    /\ Settle(Page, [wallet EXCEPT !.chainSupported = ~@], loading)
    /\ UNCHANGED <<serverVars, cacheVars, sweeper, overlapVars, fetched>>

\* CustomSignIn's button, rendered enabled: handleSignIn up to its first await.
ClickSignIn ==
    /\ SignInMounted(wallet, store)
    /\ ~store.isCheckingUser
    /\ store.userExists
    /\ ~loading
    /\ wallet.address # NoAddr
    /\ Settle(checkUserStatus(Page, wallet.address, "button"), wallet, TRUE)
    /\ UNCHANGED <<serverVars, cacheVars, sweeper, overlapVars, fetched>>

\* The Navbar's Sign Out button (authenticated branch): handleSignOut.
ClickSignOut ==
    /\ wallet.isConnected
    /\ wallet.chainSupported
    /\ store.isAuthenticated
    /\ Settle(logout(Page, "user"), wallet, loading)
    /\ UNCHANGED <<serverVars, cacheVars, sweeper, overlapVars, fetched>>

\* The request of a pending call reaches the server and is answered.
Serve(call, fault) ==
    /\ call \in calls
    /\ call.phase = "sent"
    /\ LET out == CASE call.kind = "checkUser" ->
                          [res |-> CheckUserRoute(call.address, users, fault),
                           sessions |-> user_sessions]
                     [] call.kind = "signIn" ->
                          SigninRoute(call.message, call.signature, now, users,
                                      user_sessions, fault)
                     [] call.kind = "logout" ->
                          SignoutRoute(Bearer(call.token), now, user_sessions, fault)
                     [] call.kind = "create" ->
                          CreateRoute(IF call.token = NoToken THEN NoHeader
                                      ELSE Bearer(call.token),
                                      call.address, now, users, user_sessions,
                                      fault)
       IN  /\ Cardinality((issued \cup {out.res.token}) \ {NoToken}) <= MaxIssued
           /\ user_sessions' = out.sessions
           /\ users' = IF call.kind = "create" THEN out.users ELSE users
           /\ issued' = (issued \cup {out.res.token}) \ {NoToken}
           /\ calls' = (calls \ {call}) \cup
                          {Started(calls \ {call},
                                   [call EXCEPT !.phase = "answered",
                                                !.res = out.res, !.copy = 0])}
    /\ UNCHANGED <<now, ticks, revoked, last>>
    /\ UNCHANGED <<store, storage, wallet, prevAddressRef, loading, timers, alert>>
    /\ UNCHANGED <<cacheVars, sweeper, overlapVars, fetched>>

\* The code that awaits a call, from the point where the call resolves
\* (ok, with response res) or rejects (~ok), to its next await or its end.
Resume(call, ok, res) ==
    LET pg == [Page EXCEPT !.calls = @ \ {call}]
        mine == call.by = "button"
    IN  CASE call.kind = "checkUser" ->
               LET p1 == checkUserStatusDone(pg, ok, res)
               IN  IF call.by = "hook" THEN Settle(p1, wallet, loading)
                   ELSE IF checkUserStatusExists(ok, res)
                   THEN Settle(StartCall(p1, Call("sign", call.by, call.address,
                                                  NoToken)),
                               wallet, loading)
                   ELSE SettleAlert(p1, wallet, loading /\ ~mine,
                                    checkUserStatusAlert(ok, res))
          [] call.kind = "sign" ->
               IF ok
               THEN Settle(signIn(pg, call.address,
                                  Message(call.address, CHOOSE n \in Nonces : TRUE),
                                  Signature(ToLowerCase(wallet.address),
                                            Message(call.address,
                                                    CHOOSE n \in Nonces : TRUE)),
                                  call.by),
                           wallet, loading)
               ELSE SettleAlert(pg, wallet, loading /\ ~mine,
                                "Authentication failed. Please try again.")
          [] call.kind = "signIn" ->
               SettleAlert(signInDone(pg, call.address, ok, res), wallet,
                           loading /\ ~mine, signInAlert(signInReturn(ok, res)))
          [] call.kind = "logout" ->
               Settle(logoutDone(pg), wallet, loading)
          [] call.kind = "create" ->
               IF ok /\ res.status >= 200 /\ res.status <= 299
               THEN SettleAlert(setUserExists(pg, TRUE), wallet, loading,
                                "Profile created successfully! Please sign in to continue.")
               ELSE SettleAlert(pg, wallet, loading,
                                IF ok THEN "Error: data.error"
                                ELSE "Network error occurred")

\* The response of a call arrives.
Deliver(call) ==
    /\ call \in calls
    /\ call.phase = "answered"
    /\ Resume(call, TRUE, call.res)
    /\ UNCHANGED <<serverVars, cacheVars, sweeper, overlapVars, fetched>>

\* The nonce arrives and the user approves the signature in the wallet.
Signed(call) ==
    /\ call \in calls
    /\ call.phase = "local"
    /\ wallet.isConnected
    /\ Resume(call, TRUE, NoResponse)
    /\ UNCHANGED <<serverVars, cacheVars, sweeper, overlapVars, fetched>>

\* A fetch rejects (the request or its response is lost), or the user declines
\* the signature.
Rejects(call) ==
    /\ call \in calls
    /\ Resume(call, FALSE, NoResponse)
    /\ UNCHANGED <<serverVars, cacheVars, sweeper, overlapVars, fetched>>

\* The user dismisses the alert.
DismissAlert ==
    /\ alert # NoAlert
    /\ alert' = NoAlert
    /\ UNCHANGED <<store, storage, wallet, prevAddressRef, loading, timers, calls>>
    /\ UNCHANGED <<serverVars, cacheVars, sweeper, overlapVars, fetched>>

\* The store and the storage of a document that has just been loaded, before
\* any effect has run.
FreshPage ==
    [store |-> InitialStore, storage |-> storage, timers |-> {}, calls |-> {}]

\* The document is loaded: pending calls and timers go with the old document,
\* the store starts from its initial state, useJWTAuthSync's effect runs
\* initializeAuth, the wallet is not yet connected, and the hook mounts.
LoadPage ==
    /\ LET p0 == initializeAuth(FreshPage, now)
           p1 == Commit(p0, NoAddr, NoWallet, p0.store.isAuthenticated, NoWallet,
                        TRUE)
       IN  /\ store' = p1.store
           /\ storage' = p1.storage
           /\ timers' = p1.timers
           /\ calls' = p1.calls
    /\ wallet' = NoWallet
    /\ prevAddressRef' = NoAddr
    /\ loading' = FALSE
    /\ alert = NoAlert
    /\ alert' = NoAlert

\* A timer of the hook fires: location.href = '/' and location.reload() both
\* load the document anew.
TimerFire(t) ==
    /\ t \in timers
    /\ LoadPage
    /\ UNCHANGED <<serverVars, cacheVars, sweeper, overlapVars, fetched>>

\* The user reloads the page, or opens it again.
Reload ==
    /\ LoadPage
    /\ UNCHANGED <<serverVars, cacheVars, sweeper, overlapVars, fetched>>

\* The page's behaviours are explored within one clock second: Tick is a step
\* of SpecServer only.
ClientFaults == {NoFault, "sessions.delete"}

\* Addresses a profile is created for while the page is followed; the other
\* address stays without one.
ProfileAddrs == {"0xAA"}

ClientNext ==
    \/ \E a \in ProfileAddrs : PostCreateUser(NoHeader, a, NoFault) /\ UNCHANGED <<clientVars, cacheVars, sweeper, overlapVars, fetched>>
    \/ \E a \in Addrs : WalletConnect(a)
    \/ WalletDisconnect
    \/ \E a \in Addrs : WalletSwitch(a)
    \/ ChainChanged
    \/ ClickSignIn
    \/ ClickSignOut
    \/ \E c \in calls, f \in ClientFaults : Serve(c, f)
    \/ \E c \in calls : Deliver(c)
    \/ \E c \in calls : Signed(c)
    \/ \E c \in calls : Rejects(c)
    \/ \E t \in timers : TimerFire(t)
    \/ Reload
    \/ DismissAlert

SpecClient == Init /\ [][ClientNext]_vars

\* ------------------------------------------------------------------------
\* Client: the pages behind the guards, and the clock
\* ------------------------------------------------------------------------
\* A protected page is rendered and fetches through apiFetch, which asks the
\* store for the auth headers.
ApiFetch ==
    /\ ProtectedRoute(store) = "children"
    /\ LET out == getAuthHeaders(Page, now)
       IN  /\ Settle(out.page, wallet, loading)
           /\ fetched' = [made |-> TRUE, header |-> out.headers]
    /\ UNCHANGED <<serverVars, cacheVars, sweeper, overlapVars>>

\* The setup page is rendered and its form is submitted: handleSubmit up to
\* its await of apiFetch, with wallet_address in the body.
SubmitSetup ==
    /\ SetupGuard(wallet, store) = "children"
    /\ LET out == getAuthHeaders(Page, now)
       IN  /\ Settle(StartCall(out.page,
                               Call("create", "setup", wallet.address,
                                    out.headers.token)),
                     wallet, loading)
           /\ fetched' = [made |-> TRUE, header |-> out.headers]
    /\ UNCHANGED <<serverVars, cacheVars, sweeper, overlapVars>>

\* The user connects the wallet, signs in, creates a profile, opens protected
\* pages and reloads, while the clock moves; the server answers every call.
StoreNext ==
    \/ \E a \in ProfileAddrs : PostCreateUser(NoHeader, a, NoFault)
          /\ UNCHANGED <<clientVars, cacheVars, sweeper, overlapVars, fetched>>
    \/ \E a \in Addrs : WalletConnect(a)
    \/ ClickSignIn
    \/ \E c \in calls : Serve(c, NoFault)
    \/ \E c \in calls : Deliver(c)
    \/ \E c \in calls : Signed(c)
    \/ \E t \in timers : TimerFire(t)
    \/ Reload
    \/ DismissAlert
    \/ \E d \in TickSteps : Tick(d)
          /\ UNCHANGED <<clientVars, cacheVars, sweeper, overlapVars, fetched>>
    \/ ApiFetch
    \/ SubmitSetup

SpecStore == Init /\ [][StoreNext]_vars

\* ------------------------------------------------------------------------
\* Cached store: the page, its user and the network
\* ------------------------------------------------------------------------
\* The page after a store action or continuation.
CachedSettle(cp) ==
    /\ Cardinality(cp.calls) <= MaxCalls
    /\ authStore' = cp.store
    /\ authCache' = cp.cache
    /\ authCalls' = cp.calls

\* Time passes on the page.
Elapse(d) ==
    /\ ticks < MaxElapse
    /\ now + d <= ElapseHorizon
    /\ now' = now + d
    /\ ticks' = ticks + 1
    /\ UNCHANGED <<users, user_sessions, issued, revoked, last>>
    /\ UNCHANGED <<clientVars, authStore, authCache, authCalls, mountedAt, sweeper, overlapVars, fetched>>

\* The document is loaded and useAuthSync mounts: the store starts from its
\* initial state, pending calls go with the old document, and the effect calls
\* checkAuthStatus().
MountAuthSync ==
    /\ CachedSettle(checkAuthStatus([store |-> InitialAuthStore,
                                     cache |-> authCache, calls |-> {}],
                                    FALSE, now))
    /\ mountedAt' = now
    /\ UNCHANGED <<serverVars, clientVars, sweeper, overlapVars, fetched>>

\* The setInterval callback of useAuthSync, every CACHE_DURATION after mount.
IntervalFire ==
    /\ mountedAt >= 0
    /\ now > mountedAt
    /\ (now - mountedAt) % CACHE_DURATION = 0
    /\ now - authStore.lastCacheCheck > CACHE_DURATION
    /\ CachedSettle(checkAuthStatus(CachedPage, FALSE, now))
    /\ UNCHANGED <<serverVars, clientVars, mountedAt, sweeper, overlapVars, fetched>>

\* useAuthRefresh().refreshAuth
RefreshAuth ==
    /\ CachedSettle(checkAuthStatus(CachedPage, TRUE, now))
    /\ UNCHANGED <<serverVars, clientVars, mountedAt, sweeper, overlapVars, fetched>>

\* useAuthRefresh().clearAuthCache
ClearAuthCache ==
    /\ CachedSettle(clearCache(CachedPage))
    /\ UNCHANGED <<serverVars, clientVars, mountedAt, sweeper, overlapVars, fetched>>

\* useAuthRefresh().checkUserExists
RefreshUserExists ==
    /\ CachedSettle(checkUserExists(CachedPage, TRUE, now, FALSE))
    /\ UNCHANGED <<serverVars, clientVars, mountedAt, sweeper, overlapVars, fetched>>

\* The store's setAuthenticated action.
SetAuthenticated(isAuthenticated, address) ==
    /\ CachedSettle(setAuthenticatedCached(CachedPage, isAuthenticated, address, now))
    /\ UNCHANGED <<serverVars, clientVars, mountedAt, sweeper, overlapVars, fetched>>

\* The store's logout action.
LogoutCached ==
    /\ CachedSettle(logoutCached(CachedPage))
    /\ UNCHANGED <<serverVars, clientVars, mountedAt, sweeper, overlapVars, fetched>>

\* The continuation of a pending call, with what the network gave it.
ResumeCached(call, ok, outcome, isAuth, address, exists) ==
    LET cp == [CachedPage EXCEPT !.calls = @ \ {call}]
    IN  CASE call.kind = "checkAuthStatus" ->
               checkAuthStatusDone(cp, call, ok, isAuth, address, now)
          [] call.kind = "checkUserExists" ->
               checkUserExistsDone(cp, call, outcome, exists, now)
          [] call.kind = "logout" ->
               logoutCachedDone(cp, ok, now)

\* GET /api/me is answered, or fails.
MeAnswered(call, ok, isAuth, address) ==
    /\ call \in authCalls
    /\ call.kind = "checkAuthStatus"
    /\ CachedSettle(ResumeCached(call, ok, "ok", isAuth, address, FALSE))
    /\ UNCHANGED <<serverVars, clientVars, mountedAt, sweeper, overlapVars, fetched>>

\* GET /api/user/exists is answered, or fails.
ExistsAnswered(call, outcome, exists) ==
    /\ call \in authCalls
    /\ call.kind = "checkUserExists"
    /\ CachedSettle(ResumeCached(call, TRUE, outcome, FALSE, NoAddr, exists))
    /\ UNCHANGED <<serverVars, clientVars, mountedAt, sweeper, overlapVars, fetched>>

\* POST /api/logout is answered, or fails.
LogoutAnswered(call, ok) ==
    /\ call \in authCalls
    /\ call.kind = "logout"
    /\ CachedSettle(ResumeCached(call, ok, "ok", FALSE, NoAddr, FALSE))
    /\ UNCHANGED <<serverVars, clientVars, mountedAt, sweeper, overlapVars, fetched>>

\* Something else writes text under CACHE_KEY that JSON.parse rejects.
Corrupt ==
    /\ authCache.kind # "unparseable"
    /\ authCache' = Unparseable
    /\ UNCHANGED <<serverVars, clientVars, authStore, authCalls, mountedAt, sweeper, overlapVars, fetched>>

CacheNext ==
    \/ \E d \in ElapseSteps : Elapse(d)
    \/ MountAuthSync
    \/ IntervalFire
    \/ RefreshAuth
    \/ ClearAuthCache
    \/ RefreshUserExists
    \/ \E a \in CacheAddrs \cup {NoAddr} : SetAuthenticated(a # NoAddr, a)
    \/ LogoutCached
    \/ \E c \in authCalls, ok \in BOOLEAN, b \in BOOLEAN,
          a \in CacheAddrs \cup {NoAddr} : MeAnswered(c, ok, b, a)
    \/ \E c \in authCalls, o \in {"ok", "notok", "failed"}, e \in BOOLEAN :
          ExistsAnswered(c, o, e)
    \/ \E c \in authCalls, ok \in BOOLEAN : LogoutAnswered(c, ok)
    \/ Corrupt

SpecCache == Init /\ [][CacheNext]_vars

\* ------------------------------------------------------------------------
\* Claims about the server
\* ------------------------------------------------------------------------
\* A row of sess records token for the address embedded in token.
Recorded(sess, token) ==
    \E r \in sess : r.jwt_token = token /\ r.wallet_address = token.wallet_address

\* The step is the server answering the request that last' records.
MeStep ==
    /\ last'.res.op = "me"
    /\ GetMe(last'.req.header, last'.req.fault)

SigninStep ==
    /\ last'.res.op = "signin"
    /\ PostSignin(last'.req.message, last'.req.signature, last'.req.fault)

SignoutStep ==
    /\ last'.res.op = "signout"
    /\ PostSignout(last'.req.header, last'.req.fault)

\* The sign-in request of the step names an address that has no users row,
\* and carries a signature.
NoProfileSignin ==
    /\ SigninStep
    /\ last'.req.signature.present
    /\ MatchAddress(last'.req.message) # NoAddr
    /\ ~UserDbExists(users, MatchAddress(last'.req.message))

\* C1: requireJwtAuth lets a request through (runs the route handler with the
\* wallet address attached) only if the presented token verifies structurally
\* at the time of the request and a user_sessions row holds the same token
\* with the token's embedded address; otherwise the request is answered 401
\* and the handler does not run.
C1_GuardTrustsOnlyVerifiedAndRecorded ==
    [][MeStep =>
         IF /\ last'.req.header.scheme = "Bearer "
            /\ JwtVerify(last'.req.header.token, now)
            /\ Recorded(user_sessions, last'.req.header.token)
         THEN last'.res.handlerRan =>
                last'.res.walletAddress = last'.req.header.token.wallet_address
         ELSE ~last'.res.handlerRan /\ last'.res.status = 401]_vars

\* C1 witness: a protected request was let through with its address attached.
C1_Witness ==
    /\ last.res.op = "me"
    /\ last.res.handlerRan
    /\ last.res.walletAddress = last.req.header.token.wallet_address
    /\ Recorded(user_sessions, last.req.header.token)

\* C2 (as stated): a token returned by sign-in is recorded and accepted by the
\* guard right after issuance; once a sign-out bearing it has been answered
\* its row is absent, and every later protected request bearing it is
\* answered 401.
C2_IssuedThenRevoked ==
    [][/\ (SigninStep /\ last'.res.token # NoToken) =>
             /\ Recorded(user_sessions', last'.res.token)
             /\ MeRoute(Bearer(last'.res.token), now', user_sessions',
                        NoFault).res.status = 200
       /\ (SignoutStep /\ last'.res.status = 200
             /\ last'.req.header.token \in issued) =>
             ~Recorded(user_sessions', last'.req.header.token)
       /\ (MeStep /\ last'.req.header.token \in revoked) =>
             last'.res.status = 401]_vars

\* C3 (as stated): a sign-in whose message names an address without a users
\* row is answered needsSetup:true, carries no token and inserts no row,
\* whatever the signature.
C3_NoProfileAnswersNeedsSetup ==
    [][NoProfileSignin =>
         /\ last'.res.needsSetup
         /\ last'.res.token = NoToken
         /\ user_sessions' = user_sessions]_vars

\* C3 (amended): such a sign-in is answered 403 needsSetup:true, or 500 when
\* the users lookup itself fails; either way it carries no token and inserts
\* no user_sessions row.
C3_NoProfileNoCredential ==
    [][NoProfileSignin =>
         /\ IF last'.req.fault = "users.select"
            THEN last'.res.status = 500
            ELSE last'.res.status = 403 /\ last'.res.needsSetup
         /\ last'.res.token = NoToken
         /\ ~last'.res.success
         /\ issued' = issued
         /\ user_sessions' = user_sessions]_vars

\* C3 witness: a sign-in naming an address without profile, with a signature
\* by that address's key, was answered needsSetup.
C3_Witness ==
    /\ last.res.op = "signin"
    /\ last.res.status = 403
    /\ last.res.needsSetup
    /\ SignedBy(last.req.signature, last.req.message, MatchAddress(last.req.message))
    /\ ~UserDbExists(users, MatchAddress(last.req.message))

\* C4 (as stated): sign-in returns a token for the address its message names
\* only if the submitted signature was produced over that message by that
\* address's key.
C4_CredentialOnlyForSigner ==
    [][(SigninStep /\ last'.res.token # NoToken) =>
         SignedBy(last'.req.signature, last'.req.message,
                  MatchAddress(last'.req.message))]_vars

\* C5: a bearer token that fails jwt.verify (exp at or before now, or a
\* signature the secret did not make) is rejected by the guard without any
\* user_sessions call, also while a row for it is stored: the store is
\* neither read nor changed.
C5_StructuralRejectionSkipsStore ==
    [][(/\ MeStep
        /\ last'.req.header.scheme = "Bearer "
        /\ ~JwtVerify(last'.req.header.token, now)) =>
         /\ last'.res.status = 401
         /\ ~last'.res.handlerRan
         /\ ~last'.res.storeAccessed
         /\ user_sessions' = user_sessions]_vars

\* C5 witness: an expired token whose row is still stored was rejected
\* without a store call.
C5_Witness ==
    /\ last.res.op = "me"
    /\ last.res.status = 401
    /\ ~last.res.storeAccessed
    /\ last.req.header.token.sig = JwtSecret
    /\ last.req.header.token.exp <= now \div 1000
    /\ Recorded(user_sessions, last.req.header.token)

\* C6: when the user_sessions insert of a sign-in fails, the response is an
\* error without token; and every token a sign-in response carries is
\* recorded in user_sessions when the response is sent.
C6_NoUnrecordedCredential ==
    [][SigninStep =>
         /\ last'.res.token # NoToken =>
              /\ Recorded(user_sessions', last'.res.token)
              /\ last'.res.status = 200
         /\ (/\ last'.req.message.present
             /\ last'.req.signature.present
             /\ MatchAddress(last'.req.message) # NoAddr
             /\ last'.req.fault # "users.select"
             /\ UserDbExists(users, MatchAddress(last'.req.message))
             /\ ~createAuthSession(MatchAddress(last'.req.message), now,
                                   user_sessions, last'.req.fault).ok) =>
              /\ last'.res.status >= 400
              /\ ~last'.res.success
              /\ last'.res.token = NoToken]_vars

\* C6 witness: a sign-in for an address with profile met a failing insert and
\* was answered 500 without token.
C6_Witness ==
    /\ last.res.op = "signin"
    /\ last.req.fault = "sessions.insert"
    /\ UserDbExists(users, MatchAddress(last.req.message))
    /\ last.res.status = 500
    /\ last.res.token = NoToken

\* The store as logout leaves it.
SignedOut(st) ==
    ~st.isAuthenticated /\ st.userAddress = NoAddr /\ st.jwtToken = NoToken

\* C7: when a logout has completed while a signIn request was in flight, the
\* sign-in response that resolves afterwards is ignored: delivering it does
\* not set isAuthenticated and does not store its token.
C7_OvertakenSignInIgnored ==
    [][\A c \in calls :
         (c.kind = "signIn" /\ c.overtaken /\ ~store.isAuthenticated /\ Deliver(c))
            => /\ ~store'.isAuthenticated
               /\ (c.res.token # NoToken => storage'.jwt # c.res.token)]_vars

\* The address-change step: the wallet reports a different account while one
\* was connected after mount.
AddressChange == \E a \in Addrs : prevAddressRef # NoAddr /\ WalletSwitch(a)

\* A logout call started by the address-change effect.
AddressChangeLogout(c) == c.kind = "logout" /\ c.by = "addressChange"

\* C8: on a change of the connected address from a non-empty A to another B
\* the hook invokes logout, the stored JWT and the wallet-library keys are gone
\* from local and session storage and a reload is scheduled; and when that
\* logout completes (in the same step when it has no request to wait for), the
\* store is signed out and no token is stored.
C8_AddressChangeSignsOut ==
    [][/\ AddressChange =>
            /\ IF store.jwtToken # NoToken
               THEN \E c \in calls' \ calls :
                       AddressChangeLogout(c) /\ c.token = store.jwtToken
               ELSE SignedOut(store')
            /\ storage'.jwt = NoToken
            /\ storage'.local \cap WalletLocalKeys = {}
            /\ storage'.session \cap WalletSessionKeys = {}
            /\ "reload" \in timers'
       /\ \A c \in calls :
            (AddressChangeLogout(c) /\ (Deliver(c) \/ Rejects(c)))
               => SignedOut(store') /\ storage'.jwt = NoToken]_vars

\* An authenticated client whose address has changed: its logout request has
\* been answered, storage is cleared and the reload is pending.
C8_Witness ==
    /\ wallet.isConnected
    /\ store.isAuthenticated
    /\ store.userAddress # wallet.address
    /\ "reload" \in timers
    /\ storage.jwt = NoToken
    /\ \E c \in calls : AddressChangeLogout(c) /\ c.phase = "answered"

\* C9: when the wallet reports disconnection while the client is
\* authenticated, logout is invoked and exactly one navigation, to '/', is
\* scheduled: no second navigation and no reload.
C9_DisconnectNavigatesOnce ==
    [][(store.isAuthenticated /\ timers = {} /\ WalletDisconnect)
          => /\ \E c \in calls' \ calls : c.kind = "logout" /\ c.by = "disconnect"
             /\ timers' = {"home"}]_vars

\* C10: at most one sign-in request is in flight at a time.
C10_OneSignInInFlight ==
    Cardinality({c \in calls : c.kind = "signIn"}) <= 1

\* ------------------------------------------------------------------------
\* Claims about the page: requests in flight
\* ------------------------------------------------------------------------
\* C11: a checkUserStatus response is applied only if the address it was
\* issued for is still the connected address: delivered after the wallet has
\* moved to another account or has disconnected, it leaves userExists as it was.
C11_StaleCheckUserDiscarded ==
    [][\A c \in calls :
         (c.kind = "checkUser" /\ c.address # wallet.address /\ Deliver(c))
            => store'.userExists = store.userExists]_vars

\* The page with the scheduling the browser guarantees: a response that has
\* arrived is handed to the code awaiting it, and a timer that is due fires.
\* Nothing obliges the server to answer, the network to fail, or the user to
\* act.
SpecClientFair ==
    /\ SpecClient
    /\ WF_vars(\E c \in calls : Deliver(c))
    /\ WF_vars(\E t \in timers : TimerFire(t))

\* C12: every checkUserStatus call and every signIn call eventually completes
\* and leaves isCheckingUser, respectively isAuthenticating, false, also when
\* the server never answers.
C12_ChecksAndSignInsEnd ==
    /\ store.isCheckingUser ~> ~store.isCheckingUser
    /\ store.isAuthenticating ~> ~store.isAuthenticating

\* ------------------------------------------------------------------------
\* Claims about the server: lifetime, rejection, sign-out, optional guard
\* ------------------------------------------------------------------------
\* The step is a protected request, met by no store fault, bearing a token the
\* server signed and whose row is stored.
RecordedTokenPresented ==
    /\ MeStep
    /\ last'.req.fault = NoFault
    /\ last'.req.header.scheme = "Bearer "
    /\ last'.req.header.token \in issued
    /\ Recorded(user_sessions, last'.req.header.token)

\* The time of issuance, in ms, of the recorded token of the step.
IssuedAtMs ==
    LET r == CHOOSE r \in user_sessions : r.jwt_token = last'.req.header.token
    IN  r.expires_at - SESSION_DURATION * 1000

\* C13 (as stated): a credential issued at time t whose row is stored is
\* accepted at every time strictly before t + 129600 s and rejected with 401
\* at every time after it.
C13_LifetimeFromIssuance ==
    [][RecordedTokenPresented =>
         /\ now < IssuedAtMs + SESSION_DURATION * 1000 => last'.res.status = 200
         /\ now > IssuedAtMs + SESSION_DURATION * 1000 => last'.res.status = 401]_vars

\* C13 (amended): the lifetime counts whole seconds from the second of
\* issuance: the credential is accepted while floor(now) is before
\* floor(t) + 129600 s, and rejected with 401 from that second on.
C13_LifetimeInWholeSeconds ==
    [][RecordedTokenPresented =>
         IF now \div 1000 < (IssuedAtMs \div 1000) + SESSION_DURATION
         THEN last'.res.status = 200 /\ last'.res.handlerRan
         ELSE last'.res.status = 401 /\ ~last'.res.handlerRan]_vars

\* C13 witness: a credential issued half a second into a second was rejected
\* half a second before 36 h had passed since its issuance, its row still
\* stored.
C13_Witness ==
    /\ last.res.op = "me"
    /\ last.res.status = 401
    /\ last.req.fault = NoFault
    /\ last.req.header.token \in issued
    /\ \E r \in user_sessions :
         /\ r.jwt_token = last.req.header.token
         /\ now < r.expires_at
         /\ now + 1000 > r.expires_at

\* C14: a protected request with no bearer header, or bearing an expired, a
\* forged or a revoked token (its row deleted), is answered 401 with
\* authenticated:false, never 500 or 200, and the route handler does not run.
C14_RejectionIsAlways401 ==
    [][(/\ MeStep
        /\ \/ last'.req.header.scheme # "Bearer "
           \/ ~JwtVerify(last'.req.header.token, now)
           \/ ~Recorded(user_sessions, last'.req.header.token)) =>
         /\ last'.res.status = 401
         /\ last'.res.authenticated = "false"
         /\ ~last'.res.handlerRan]_vars

\* C14 witness: a token that still verifies, revoked by a sign-out that
\* deleted its row, was answered 401 authenticated:false.
C14_Witness ==
    /\ last.res.op = "me"
    /\ last.req.header.token \in revoked
    /\ JwtVerify(last.req.header.token, now)
    /\ ~Recorded(user_sessions, last.req.header.token)
    /\ last.res.status = 401
    /\ last.res.authenticated = "false"

\* C15: POST /auth/signout answers 200 only to a request bearing a valid
\* credential (one that verifies and whose row is stored), and whenever it
\* answers 200 the store holds no row for the presented token.
C15_SignoutNeedsAndDeletesCredential ==
    [][(SignoutStep /\ last'.res.status = 200) =>
         /\ JwtVerify(last'.req.header.token, now)
         /\ Recorded(user_sessions, last'.req.header.token)
         /\ \A r \in user_sessions' : r.jwt_token # last'.req.header.token]_vars

\* The step is the server answering the create request that last' records.
CreateStep ==
    /\ last'.res.op = "create"
    /\ PostCreateUser(last'.req.header, last'.req.address, last'.req.fault)

\* C16: optionalJwtAuth passes every request on to the handler exactly once
\* and never answers it itself, with no credential or with one that does not
\* pass; and it attaches a wallet address exactly when requireJwtAuth would
\* let the same request through, the address being the token's.
C16_OptionalGuardNeverRejects ==
    [][CreateStep =>
         LET pre == optionalJwtAuth(last'.req.header, now, user_sessions,
                                    last'.req.fault)
             req == requireJwtAuth("create", last'.req.header, now,
                                   user_sessions, last'.req.fault)
         IN  /\ pre.nextCalls = 1
             /\ ~pre.rejected
             /\ last'.res.handlerRan
             /\ last'.res.nextCalls = 1
             /\ last'.res.status \notin {401, 403}
             /\ last'.res.attached # NoAddr <=> req.res.handlerRan
             /\ last'.res.attached # NoAddr =>
                  /\ JwtVerify(last'.req.header.token, now)
                  /\ Recorded(user_sessions, last'.req.header.token)
                  /\ last'.res.attached = last'.req.header.token.wallet_address]_vars

\* C16 witness: a create request bearing a forged token for one address and
\* naming another in its body was handled for the body's address, nothing
\* attached.
C16_Witness ==
    /\ last.res.op = "create"
    /\ last.req.header.scheme = "Bearer "
    /\ last.req.header.token.sig # JwtSecret
    /\ last.req.address # NoAddr
    /\ ToLowerCase(last.req.address) # last.req.header.token.wallet_address
    /\ last.res.attached = NoAddr
    /\ last.res.status = 201
    /\ last.res.walletAddress = ToLowerCase(last.req.address)

\* C17: a nonce is single-use: a {message, signature} pair that a sign-in has
\* answered with a credential obtains none when it is submitted again.
C17_NonceIsSingleUse ==
    [][(/\ SigninStep
        /\ last.res.op = "signin"
        /\ last.res.token # NoToken
        /\ last'.req.message = last.req.message
        /\ last'.req.signature = last.req.signature) =>
         last'.res.token = NoToken]_vars

\* ------------------------------------------------------------------------
\* Claims about the page: sign-in failure, start-up, logout
\* ------------------------------------------------------------------------
\* C18: a signIn that the server answers without success, or whose request
\* fails on the network, ends with isAuthenticating false, leaves
\* isAuthenticated and the stored token as they were, and returns
\* success:false with an error.
C18_FailedSignInChangesNothing ==
    [][\A c \in calls :
         (/\ c.kind = "signIn"
          /\ \/ Deliver(c) /\ ~(c.res.success /\ c.res.token # NoToken)
             \/ Rejects(c)) =>
            /\ ~store'.isAuthenticating
            /\ store'.isAuthenticated = store.isAuthenticated
            /\ store'.jwtToken = store.jwtToken
            /\ storage'.jwt = storage.jwt
            /\ \A ok \in BOOLEAN :
                 (ok => ~(c.res.success /\ c.res.token # NoToken)) =>
                    /\ ~signInReturn(ok, IF ok THEN c.res ELSE NoResponse).success
                    /\ signInReturn(ok, IF ok THEN c.res ELSE NoResponse).error # ""]_vars

\* C18 witness: the server has answered a pending signIn with an error, and
\* the response is on its way to a client that is signing in.
C18_Witness ==
    /\ store.isAuthenticating
    /\ ~store.isAuthenticated
    /\ \E c \in calls :
         /\ c.kind = "signIn"
         /\ c.phase = "answered"
         /\ c.res.status >= 400
         /\ ~c.res.success

\* The stored token is one initializeAuth restores: unexpired, with an address.
StoredSessionUsable ==
    /\ storage.jwt # NoToken
    /\ ~isTokenExpired(storage.jwt, now)
    /\ decodeJWT(storage.jwt).wallet_address # NoAddr

\* C19: when the page starts with a stored token that is unexpired and
\* carries a wallet address, initializeAuth makes the store authenticated for
\* that address from local storage alone: it has issued no request when the
\* store is authenticated, and the store is authenticated when the load is
\* over.
C19_StoredSessionRestoredLocally ==
    [][(LoadPage /\ StoredSessionUsable) =>
         LET p0 == initializeAuth(FreshPage, now)
         IN  /\ p0.calls = {}
             /\ p0.store.isAuthenticated
             /\ p0.store.userAddress = decodeJWT(storage.jwt).wallet_address
             /\ p0.store.jwtToken = storage.jwt
             /\ store'.isAuthenticated
             /\ store'.userAddress = decodeJWT(storage.jwt).wallet_address
             /\ \A c \in calls' : c.kind = "logout"]_vars

\* C19 witness: a page just loaded with a stored session: authenticated for
\* the token's address before the wallet has connected.
C19_Witness ==
    /\ store.isAuthenticated
    /\ store.jwtToken # NoToken
    /\ store.userAddress = decodeJWT(store.jwtToken).wallet_address
    /\ ~wallet.isConnected
    /\ prevAddressRef = NoAddr
    /\ timers = {"home"}
    /\ \A c \in calls : c.kind = "logout" /\ c.by = "disconnect"

\* C20: logout always ends with the local state cleared and the stored token
\* removed, whether the server's sign-out call succeeds, is rejected, fails
\* on the network or is never answered; and the call is made only with a token
\* that is held.
C20_LogoutAlwaysClears ==
    /\ [][\A c \in calls' \ calls :
            (c.kind = "logout" /\ c.phase = "sent") => c.token # NoToken]_vars
    /\ (\E c \in calls : c.kind = "logout")
          ~> (SignedOut(store) /\ ~store.userExists /\ storage.jwt = NoToken)

\* ------------------------------------------------------------------------
\* Claims about the cached store
\* ------------------------------------------------------------------------
AuthenticatedEntry(cache) == cache.kind = "entry" /\ cache.isAuthenticated

\* C21: once logout or clearCache of the cached store has completed, the cache
\* holds no entry, and the answer of a request that was in flight at that time
\* (or of a request its continuation starts) writes no entry with
\* isAuthenticated true.
C21_NoAuthenticatedEntryAfterLogout ==
    [][/\ (\E c \in authCalls : c.kind = "logout" /\ c \notin authCalls'
                                  /\ mountedAt' = mountedAt
                                  /\ authStore'.lastCacheCheck = now)
            => authCache'.kind = "none"
       /\ \A c \in authCalls :
            (c.overtaken /\ c \notin authCalls' /\ authCache' # authCache)
               => ~AuthenticatedEntry(authCache')]_vars

\* What checkAuthStatus sets from a cache entry it honours.
Honoured(st, entry) ==
    /\ st.isAuthenticated = entry.isAuthenticated
    /\ st.userAddress = entry.userAddress
    /\ st.userExists = entry.userExists
    /\ ~st.isAuthenticating

\* C22: a checkAuthStatus() that reads a cache entry written at T (at mount,
\* or from the interval) honours it without a network call at every time
\* before T + CACHE_DURATION, and at every time after T + CACHE_DURATION
\* removes it from storage and calls the server.
C22_EntryHonouredUntilTTL ==
    [][/\ (MountAuthSync /\ authCache.kind = "entry") =>
            /\ now < authCache.timestamp + CACHE_DURATION =>
                  /\ authCalls' = {}
                  /\ authCache' = authCache
                  /\ Honoured(authStore', authCache)
            /\ now > authCache.timestamp + CACHE_DURATION =>
                  /\ authCache'.kind = "none"
                  /\ \E c \in authCalls' : c.kind = "checkAuthStatus" /\ c.at = now
       /\ (IntervalFire /\ authCache.kind = "entry") =>
            /\ now < authCache.timestamp + CACHE_DURATION =>
                  /\ authCalls' = authCalls
                  /\ authCache' = authCache
                  /\ Honoured(authStore', authCache)
            /\ now > authCache.timestamp + CACHE_DURATION =>
                  /\ authCache'.kind = "none"
                  /\ \E c \in authCalls' \ authCalls :
                        c.kind = "checkAuthStatus" /\ c.at = now]_vars

\* An authenticated entry has been honoured at mount one millisecond before
\* its duration ended.
C22_Witness ==
    /\ AuthenticatedEntry(authCache)
    /\ now = authCache.timestamp + CACHE_DURATION - 1
    /\ mountedAt = now
    /\ authStore.lastCacheCheck = now
    /\ authCalls = {}
    /\ Honoured(authStore, authCache)

\* C23: a cache read made when now - timestamp equals CACHE_DURATION exactly
\* returns null and deletes the stored record: checkAuthStatus() then finds
\* no entry, leaves none in storage and calls the server.
C23_ReadAtDurationIsMiss ==
    [][((MountAuthSync \/ IntervalFire) /\ authCache.kind = "entry"
          /\ now - authCache.timestamp = CACHE_DURATION) =>
            /\ getCachedAuth(authCache, now).value.kind = "none"
            /\ authCache'.kind = "none"
            /\ \E c \in authCalls' : c.kind = "checkAuthStatus" /\ c.at = now]_vars

\* C24: a cache read of a record that cannot be parsed returns null, deletes
\* the record and raises nothing to its caller, and the read that follows is a
\* plain miss: checkAuthStatus() goes on to ask the server.
C24_UnparseableRecordIsMiss ==
    [][authCache.kind = "unparseable" =>
         LET read == getCachedAuth(authCache, now)
         IN  /\ read.value = NoCache
             /\ read.cache = NoCache
             /\ ~read.threw
             /\ getCachedAuth(read.cache, now) =
                   [value |-> NoCache, cache |-> NoCache, threw |-> FALSE,
                    found |-> "none"]
             /\ (MountAuthSync \/ IntervalFire) =>
                   /\ authCache' = NoCache
                   /\ authStore'.isAuthenticating
                   /\ \E c \in authCalls' :
                         /\ c.kind = "checkAuthStatus"
                         /\ c.at = now
                         /\ c.found = "unparseable"]_vars

\* checkAuthStatus() met an unparseable record, removed it and is asking the
\* server.
C24_Witness ==
    /\ authCache = NoCache
    /\ authStore.isAuthenticating
    /\ \E c \in authCalls : c.kind = "checkAuthStatus" /\ c.found = "unparseable"

\* C25: a checkAuthStatus call of the cached store that fails sets serverError
\* and, while the store is authenticated and an unexpired authenticated entry
\* is cached, leaves isAuthenticated, userAddress and the cached entry as they
\* were.
C25_FailedCallKeepsCachedSession ==
    [][\A c \in authCalls :
          (/\ MeAnswered(c, FALSE, FALSE, NoAddr)
           /\ authStore.isAuthenticated
           /\ AuthenticatedEntry(getCachedAuth(authCache, now).value)) =>
             /\ authStore'.serverError
             /\ authStore'.isAuthenticated = authStore.isAuthenticated
             /\ authStore'.userAddress = authStore.userAddress
             /\ authCache' = authCache]_vars

\* ------------------------------------------------------------------------
\* Claims about the token store's error flag
\* ------------------------------------------------------------------------
\* The response of call c has arrived and reports success.
Succeeded(c) == c.phase = "answered" /\ c.res.status = 200

\* C26: serverError becomes true whenever a checkUserStatus or signIn call
\* fails on the network, stays true until the next network call that succeeds,
\* and is false after that successful call (a newly loaded document starts
\* with a new store).
C26_ServerErrorUntilNextSuccess ==
    [][/\ \A c \in calls :
            (c.kind \in {"checkUser", "signIn"} /\ Rejects(c)) => store'.serverError
       /\ (store.serverError /\ ~store'.serverError /\ ~LoadPage) =>
            \E c \in calls : Succeeded(c) /\ Deliver(c)
       /\ \A c \in calls :
            (c.kind \in {"checkUser", "signIn"} /\ Succeeded(c) /\ Deliver(c))
               => ~store'.serverError]_vars

\* What handleSignIn shows for an account that has to complete its profile.
NeedsSetupAlerts ==
    {"Please complete your profile setup first by going to the Setup page.",
     "Please complete your profile setup first."}

\* The profile check of call c did not get an answer about the profile: the
\* fetch rejected, or the server answered with an error.
CheckFailed(c) ==
    /\ c.kind = "checkUser"
    /\ c.by # "hook"
    /\ \/ Rejects(c)
       \/ Deliver(c) /\ c.res.status >= 500

\* C27: a sign-in attempt whose profile check fails on the network or with a
\* server error is not reported as needs-setup (it is reported as service
\* unavailable).
C27_FailedCheckIsNotNeedsSetup ==
    [][\A c \in calls : CheckFailed(c) => alert' \notin NeedsSetupAlerts]_vars

\* ------------------------------------------------------------------------
\* Claims about the sweeper
\* ------------------------------------------------------------------------
\* This step is a run of the scheduled cleanup.
SweepStep == sweeper'.runs = sweeper.runs + 1

\* C28: a sweep deletes only rows whose expires_at is before now, never the
\* row of a credential that is still unexpired, and the guard's decision on
\* every token that can be presented is the same before and after the sweep.
C28_SweepNeverChangesGuardDecision ==
    [][SweepStep =>
         /\ \A r \in user_sessions \ user_sessions' : r.expires_at < now
         /\ \A r \in user_sessions :
               JwtVerify(r.jwt_token, now) => r \in user_sessions'
         /\ user_sessions' \subseteq user_sessions
         /\ \A t \in Presentable :
               /\ verifyAuthToken(t, now, user_sessions', NoFault).valid
                     = verifyAuthToken(t, now, user_sessions, NoFault).valid
               /\ requireJwtAuth("me", Bearer(t), now, user_sessions',
                                 NoFault).res.status
                     = requireJwtAuth("me", Bearer(t), now, user_sessions,
                                      NoFault).res.status]_vars

\* A sweep has deleted the row of an expired credential while the row of a
\* credential the guard still accepts is in the table.
C28_Witness ==
    /\ sweeper.justSwept
    /\ ~sweeper.failed
    /\ \E t \in issued :
          /\ ~Recorded(user_sessions, t)
          /\ t \notin revoked
          /\ ~JwtVerify(t, now)
    /\ \E t \in issued :
          /\ Recorded(user_sessions, t)
          /\ verifyAuthToken(t, now, user_sessions, NoFault).valid

C30_FailedSweepKeepsSchedule ==
    [][(SweepStep /\ sweeper'.failed) =>
         /\ sweeper'.process = "running"
         /\ sweeper'.interval
         /\ ~sweeper'.threw
         /\ user_sessions' = user_sessions]_vars

\* Three sweeps have run: the one before the last failed, and the last one
\* ran without error, with the row of an expired credential gone.
C30_Witness ==
    /\ sweeper.runs = 3
    /\ sweeper.recovered
    /\ ~sweeper.failed
    /\ sweeper.process = "running"
    /\ sweeper.interval
    /\ \E t \in issued : ~Recorded(user_sessions, t) /\ t \notin revoked

\* ------------------------------------------------------------------------
\* Claims about overlapping store operations
\* ------------------------------------------------------------------------
\* C31: sweeps, sign-outs and the verifier's deletion of an expired row may
\* overlap: no call ends with an error (a delete whose row is already gone
\* included), and once all have ended the store is one that running the same
\* calls one after another leaves.
C31_OverlappingDeletesAreSerial ==
    /\ \A o \in batch.done : ~o.error
    /\ (ops = {} /\ batch.done # {})
          => user_sessions \in SerialResults(batch.base, batch.done)

\* A sweep, a sign-out and a verification have overlapped and ended, the
\* verification with its clean-up delete, and a delete found its row gone.
C31_Witness ==
    /\ ops = {}
    /\ batch.overlapped
    /\ batch.noop
    /\ {o.kind : o \in batch.done} =
          {"cleanupExpiredSessions", "invalidateSession", "verifyAuthToken"}
    /\ \E o \in batch.done :
          o.kind = "verifyAuthToken" /\ o.result = "null" /\ Cardinality(o.rows) = 1
    /\ user_sessions # batch.base

\* ------------------------------------------------------------------------
\* Claims about profiles and their sessions
\* ------------------------------------------------------------------------
\* The insert of a pending sign-in runs after the profile was deleted.
InsertMeetsMissingProfile ==
    \E op \in ops :
       /\ op.kind = "signin"
       /\ op \notin ops'
       /\ ~UserDbExists(users, op.address)

\* C32: every user_sessions row refers to an address that has a users row
\* (deleting a profile removes its sessions), and a sign-in whose insert meets
\* a missing profile answers 403 needsSetup with no token and stores no row.
C32_SessionsReferToProfiles ==
    /\ [](\A r \in user_sessions : r.wallet_address \in users)
    /\ [][InsertMeetsMissingProfile =>
            /\ last'.res.status = 403
            /\ last'.res.needsSetup
            /\ last'.res.token = NoToken
            /\ issued' = issued
            /\ user_sessions' = user_sessions]_vars

\* A profile with a recorded session was deleted, and a sign-in that had
\* passed the profile check met the missing profile at its insert.
C32_Witness ==
    /\ last.req.fault = "sessions.insert.23503"
    /\ last.res.status = 403
    /\ \E t \in issued : ~Recorded(user_sessions, t)

\* ------------------------------------------------------------------------
\* Claims about the token store's state
\* ------------------------------------------------------------------------
\* C34: in every reachable state of the token store, isAuthenticated implies
\* that userAddress and jwtToken are set and userExists is true.
C34_AuthenticatedHasAddressTokenProfile ==
    store.isAuthenticated =>
       /\ store.userAddress # NoAddr
       /\ store.jwtToken # NoToken
       /\ store.userExists

\* C33: ProtectedRoute renders the protected page only when isAuthenticating
\* is false, isAuthenticated is true and userExists is true; otherwise it
\* renders the loading indicator (authenticating), a redirect to '/' (not
\* authenticated) or a redirect to '/setup' (authenticated without profile).
C33_ProtectedPageOnlyForProfiledSession ==
    LET r == ProtectedRoute(store)
    IN  /\ r = "children" <=>
              (~store.isAuthenticating /\ store.isAuthenticated /\ store.userExists)
        /\ r = "loading" <=> store.isAuthenticating
        /\ r = "Navigate to /" <=>
              (~store.isAuthenticating /\ ~store.isAuthenticated)
        /\ r = "Navigate to /setup" <=>
              (~store.isAuthenticating /\ store.isAuthenticated /\ ~store.userExists)

\* A signed-in session with a profile, for which the protected page is
\* rendered, on a page whose wallet is connected.
C33_Witness ==
    /\ ProtectedRoute(store) = "children"
    /\ store.jwtToken \in issued
    /\ wallet.isConnected

\* C35: a page that loads with a usable stored session, while the wallet has
\* not yet reported a connection, is not signed out: the load starts no
\* logout, schedules no navigation home, and the stored token stays where it
\* was.
C35_RestoredSessionSurvivesUnconnectedWallet ==
    [][(LoadPage /\ StoredSessionUsable) =>
         /\ store'.isAuthenticated
         /\ \A c \in calls' : c.kind # "logout"
         /\ "home" \notin timers'
         /\ storage'.jwt = storage.jwt]_vars

\* The sign-in of the step passes every check of the route and reaches the
\* insert with a token that user_sessions already holds: the same address was
\* signed in earlier in the same clock second.
SameSecondSignin ==
    /\ SigninStep
    /\ last'.req.fault = NoFault
    /\ MatchAddress(last'.req.message) # NoAddr
    /\ SignedBy(last'.req.signature, last'.req.message,
                MatchAddress(last'.req.message))
    /\ UserDbExists(users, MatchAddress(last'.req.message))
    /\ Recorded(user_sessions,
                JwtSign(UserPayload(MatchAddress(last'.req.message), now)))

\* C36: no two rows of user_sessions hold the same token; a sign-in for an
\* address that was already signed in within the same clock second (so that
\* the token is the same) fails at the insert: it is answered 500 without
\* token, user_sessions is left as it was, and the guard still accepts the
\* first session's token.
C36_DuplicateTokenInsertFails ==
    /\ [](\A r1, r2 \in user_sessions : r1.jwt_token = r2.jwt_token => r1 = r2)
    /\ [][SameSecondSignin =>
            LET token == JwtSign(UserPayload(MatchAddress(last'.req.message), now))
            IN  /\ last'.res.status = 500
                /\ ~last'.res.success
                /\ last'.res.token = NoToken
                /\ user_sessions' = user_sessions
                /\ requireJwtAuth("me", Bearer(token), now, user_sessions',
                                  NoFault).res.handlerRan]_vars

\* C36 witness: a second sign-in of the same address, half a second after the
\* first, was answered 500 without token while the first row is in the table.
C36_Witness ==
    /\ last.res.op = "signin"
    /\ last.req.fault = NoFault
    /\ last.res.status = 500
    /\ last.res.token = NoToken
    /\ now = 500
    /\ SignedBy(last.req.signature, last.req.message,
                MatchAddress(last.req.message))
    /\ \E r \in user_sessions :
          /\ r.jwt_token = JwtSign(UserPayload(MatchAddress(last.req.message), now))
          /\ r.expires_at = SESSION_DURATION * 1000

\* C37: when the user_sessions lookup of the verification fails (the store
\* answers with an error, or the call throws because the store cannot be
\* reached), the guard answers 401 authenticated:false, the protected handler
\* does not run, and the store is left as it was; whatever token is presented.
C37_StoreErrorIsUnauthenticated ==
    [][(MeStep /\ last'.req.fault = "sessions.select") =>
         /\ last'.res.status = 401
         /\ last'.res.authenticated = "false"
         /\ ~last'.res.handlerRan
         /\ last'.res.walletAddress = NoAddr
         /\ user_sessions' = user_sessions]_vars

\* C37 witness: a token that verifies and whose row is stored was rejected
\* with 401 because the lookup failed.
C37_Witness ==
    /\ last.res.op = "me"
    /\ last.req.fault = "sessions.select"
    /\ last.req.header.scheme = "Bearer "
    /\ JwtVerify(last.req.header.token, now)
    /\ Recorded(user_sessions, last.req.header.token)
    /\ last.res.storeAccessed
    /\ last.res.status = 401
    /\ ~last.res.handlerRan

\* The step is a step of the verifyAuthToken call op: the database answers its
\* select or runs its clean-up delete, or the function goes on from the
\* answer of the select.
VerifyStep(op) ==
    /\ op.kind = "verifyAuthToken"
    /\ DbExec(op) \/ VerifyContinue(op)

\* C38: no step of a verifyAuthToken call changes user_sessions except its
\* clean-up delete, so a call that accepts its token has left the table as it
\* was; the clean-up removes only rows that hold the presented token and whose
\* expires_at was past when the call compared it, and every other row stays
\* in the table as it was.
C38_VerifierDeletesOnlyItsExpiredRow ==
    [][\A op \in ops : VerifyStep(op) =>
         /\ user_sessions' \subseteq user_sessions
         /\ op.phase # "delete" => user_sessions' = user_sessions
         /\ (\E o \in batch'.done \ batch.done : o.result = "valid") =>
               user_sessions' = user_sessions
         /\ \A r \in user_sessions \ user_sessions' :
               /\ r.jwt_token = op.token
               /\ op.at >= 0
               /\ r.expires_at < op.at]_vars

\* C38 witness: one verifyAuthToken call has run alone, found its row past
\* its expires_at and deleted it; the other session's row is still stored.
C38_Witness ==
    /\ ops = {}
    /\ \E o \in batch.done :
          /\ batch.done = {o}
          /\ o.kind = "verifyAuthToken"
          /\ o.result = "null"
          /\ \E r \in batch.base : r.jwt_token = o.token /\ r.expires_at < o.at
          /\ user_sessions = {r \in batch.base : r.jwt_token # o.token}
          /\ user_sessions # {}

\* The step is a page asking the store for the auth headers of a request.
AsksAuthHeaders == ApiFetch \/ SubmitSetup

\* The token's own claims say it is no longer good at nowMs: it cannot be
\* decoded, it has no exp, or its exp is not in the future.
ExpiredByOwnClaim(token, nowMs) ==
    \/ decodeJWT(token).exp = 0
    \/ decodeJWT(token).exp <= nowMs \div 1000

\* C39: whenever a page asks for the auth headers, an Authorization header
\* comes back only with the held token and only if that token is not expired
\* by its own exp claim; for a held token that is expired or cannot be decoded
\* no header comes back and logout is started; with no token held no header
\* comes back and the store, the storage and the pending calls are as before.
C39_NoHeaderForExpiredToken ==
    [][AsksAuthHeaders =>
         LET out == getAuthHeaders(Page, now)
         IN  /\ fetched'.header = out.headers
             /\ out.headers # NoHeader =>
                   /\ out.headers = Bearer(store.jwtToken)
                   /\ ~ExpiredByOwnClaim(store.jwtToken, now)
             /\ (store.jwtToken # NoToken
                   /\ ExpiredByOwnClaim(store.jwtToken, now)) =>
                   /\ out.headers = NoHeader
                   /\ out.page = logout(Page, "getAuthHeaders")
                   /\ \E c \in calls' : c.kind = "logout" /\ c.by = "getAuthHeaders"
             /\ store.jwtToken = NoToken =>
                   /\ out.headers = NoHeader
                   /\ out.page = Page
                   /\ store' = store
                   /\ storage' = storage]_vars

====
